---- MODULE Spec2Model ----
(***************************************************************************)
(* Model of the TaskManager of video_change (src/core/task_manager.py),    *)
(* the worker pool it owns, and the execution paths it drives              *)
(* (FFmpegService -> FFmpegWrapper -> _execute / run_with_progress).       *)
(*                                                                         *)
(* Threads: one caller (submit_conversion, submit_merge, shutdown), the    *)
(* pool's worker threads, and one child process per launched task.         *)
(* The status observer and the child are the environment; the observer is  *)
(* taken to return normally, the progress callback may raise.              *)
(***************************************************************************)
EXTENDS Naturals, Integers, Sequences, FiniteSets, TLC

\* ---------------------------------------------------------------- bounds
MaxTasks == 2          \* submit calls made in one behaviour of Spec
MaxPoolTasks == 3      \* submit calls made in one behaviour of PoolSpec
MaxFairTasks == 2      \* submit calls made in one behaviour of FairSpec
MaxRegTasks == 2       \* submit calls made in one behaviour of RegSpec
NumCallers == 2        \* threads that call submit concurrently in RegSpec
MaxLines == 1          \* diagnostic lines a child writes to stderr
MaxMonLines == 2       \* lines read from stderr in one behaviour of MonSpec
MaxInputs == 3         \* inputs of one merge request in BuildSpec
MaxJobs == 3           \* jobs queued in the window in one behaviour of GuiSpec

\* ------------------------------------------------------ program constants
max_workers == 2       \* TaskManager.__init__(max_workers=2)
cancel_futures_off == FALSE
cancel_futures == TRUE \* executor.shutdown(wait=False, cancel_futures=True)

Max(a, b) == IF a > b THEN a ELSE b
TaskIds == 1..Max(Max(Max(MaxTasks, MaxRegTasks), Max(MaxPoolTasks, MaxFairTasks)), MaxJobs)
Callers == 1..NumCallers
Workers_extra == 1..(max_workers + 1)
Workers == 1..max_workers
MainThread == max_workers + 1 \* the GUI thread; worker w is thread w
GuiThreads == Workers \cup {MainThread}
NoItem == 0            \* the None the pool puts on its queue at shutdown

TaskStatus == {"QUEUED", "RUNNING", "COMPLETED", "FAILED", "CANCELLED"}
TaskType == {"CONVERT", "MERGE"}

\* A merge input list is abstracted to one flag per input: does the mapping
\* carry a 'path' key.  A conversion has one input path.
\* The merge requests submitted: <<inputs, progress callback given>>.
MergeRequests == {<<<<TRUE, TRUE>>, TRUE>>,
                  <<<<TRUE>>, FALSE>>,
                  <<<<TRUE, FALSE>>, FALSE>>}

\* Message of an exception raised by the progress callback.
CallbackMessages == {"callback failed"}

VARIABLES
  tasks,          \* TaskManager.tasks: ids in the registry
  nextId,         \* Task objects created so far + 1
  task_id,        \* Task.task_id (0: no such task yet)
  task_type,      \* Task.task_type
  input_data,     \* Task.input_data (see MergeRequests)
  progress,       \* was a progress callback passed to submit
  status,         \* Task.status ("NONE": no such task yet)
  error,          \* Task.error: <<>> is None, <<m>> is the string m
  future,         \* state of the Future of the work item
  rejected,       \* tasks whose executor.submit raised RuntimeError
  work_queue,     \* executor._work_queue
  shutdown_flag,  \* executor._shutdown
  sd_pc,          \* position of the caller inside shutdown()
  worker,         \* per worker thread: position and work item
  proc,           \* per task: child process not spawned / running / exited
  rc,             \* per task: exit code of the child
  lines,          \* per task: lines the child has written to stderr
  raised,         \* per task: exception that left service.convert/merge
  obs,            \* per task: statuses on_task_update was called with
  obs_error,      \* per task: Task.error as read at each of those calls
  lock,           \* TaskManager._lock: 0 free, else the caller holding it
  caller,         \* per calling thread: position inside submit_*, its Task
  mon_pc,         \* run_with_progress: "off", "reading" or "done"
  total_duration, \* its total_duration argument: <<>> is None
  check,          \* its check argument
  stdout,         \* lines read from process.stdout so far
  clock,          \* time.time() - start_time as read for each of those lines
  updates,        \* the ProgressUpdate objects the callback was called with
  last_progress,  \* the local variable last_progress
  return_code,    \* process.wait(): <<>> until the child was waited for
  outcome,        \* how the call ended: "none", "returned", "FFmpegError",
                  \* "CallbackError"
  build_pc,       \* FFmpegWrapper call: "off", "ready", "built", "raised",
                  \* "spawned"
  request,        \* its arguments: kind, inputs, output_file, params
  cmd,            \* the argv a build function returned
  build_error,    \* the exception a build function raised: <<>> is none
  pending_jobs,   \* MainWindow.pending_jobs
  active_task_id, \* MainWindow.active_task_id: <<>> is None
  current_job,    \* MainWindow.current_job: <<>> is None
  enqueued,       \* jobs handed to _enqueue_jobs so far
  gui             \* per thread: position inside the window's job code

vars == <<tasks, nextId, task_id, task_type, input_data, progress, status,
          error, future, rejected, work_queue, shutdown_flag, sd_pc,
          worker, proc, rc, lines, raised, obs, obs_error, lock, caller,
          mon_pc, total_duration, check, stdout, clock, updates,
          last_progress, return_code, outcome,
          build_pc, request, cmd, build_error,
          pending_jobs, active_task_id, current_job, enqueued, gui>>

taskVars == <<tasks, nextId, task_id, task_type, input_data, progress, rejected>>
regVars == <<lock, caller>>
sdVars == <<shutdown_flag, sd_pc>>
procVars == <<proc, rc, lines>>
monVars == <<mon_pc, total_duration, check, stdout, clock, updates,
             last_progress, return_code, outcome>>
buildVars == <<build_pc, request, cmd, build_error>>
guiVars == <<pending_jobs, active_task_id, current_job, enqueued, gui>>
restVars == <<monVars, buildVars, guiVars>>

Idle == [pc |-> "idle", task |-> 0]

TaskInit ==
  /\ tasks = {}
  /\ nextId = 1
  /\ task_id = [t \in TaskIds |-> 0]
  /\ task_type = [t \in TaskIds |-> "NONE"]
  /\ input_data = [t \in TaskIds |-> <<>>]
  /\ progress = [t \in TaskIds |-> FALSE]
  /\ status = [t \in TaskIds |-> "NONE"]
  /\ error = [t \in TaskIds |-> <<>>]
  /\ future = [t \in TaskIds |-> "NONE"]
  /\ rejected = {}
  /\ work_queue = <<>>
  /\ shutdown_flag = FALSE
  /\ sd_pc = "idle"
  /\ worker = [w \in Workers |-> Idle]
  /\ proc = [t \in TaskIds |-> "none"]
  /\ rc = [t \in TaskIds |-> 0]
  /\ lines = [t \in TaskIds |-> 0]
  /\ raised = [t \in TaskIds |-> <<>>]
  /\ obs = [t \in TaskIds |-> <<>>]
  /\ obs_error = [t \in TaskIds |-> <<>>]
  /\ lock = 0
  /\ caller = [c \in Callers |-> Idle]

\* No run_with_progress call is under observation.
MonOff ==
  /\ mon_pc = "off"
  /\ total_duration = <<>>
  /\ check = FALSE
  /\ stdout = <<>>
  /\ clock = <<>>
  /\ updates = <<>>
  /\ last_progress = <<0, 1>>
  /\ return_code = <<>>
  /\ outcome = "none"

\* No FFmpegWrapper call is under observation.
BuildOff ==
  /\ build_pc = "off"
  /\ request = <<>>
  /\ cmd = <<>>
  /\ build_error = <<>>

\* No job was queued in the window.
GuiOff ==
  /\ pending_jobs = <<>>
  /\ active_task_id = <<>>
  /\ current_job = <<>>
  /\ enqueued = 0
  /\ gui = [th \in GuiThreads |-> Idle]

Init == TaskInit /\ MonOff /\ BuildOff /\ GuiOff

\* ------------------------------------------------------------ helpers

\* _update_task: task.status = status; then on_task_update(task), which
\* reads the status the task carries at that moment.
update_task_shared(t, s) ==
  /\ status' = [u \in TaskIds |-> IF status[u] = "NONE" /\ u # t THEN "NONE" ELSE s]
  /\ obs' = [obs EXCEPT ![t] = Append(@, status'[t])]
  /\ obs_error' = [obs_error EXCEPT ![t] = Append(@, error'[t])]
update_task_notify_first(t, s) ==
  /\ status' = [status EXCEPT ![t] = s]
  /\ obs' = [obs EXCEPT ![t] = Append(@, status[t])]
  /\ obs_error' = [obs_error EXCEPT ![t] = Append(@, error'[t])]
update_task_stale_error(t, s) ==
  /\ status' = [status EXCEPT ![t] = s]
  /\ obs' = [obs EXCEPT ![t] = Append(@, status'[t])]
  /\ obs_error' = [obs_error EXCEPT ![t] = Append(@, error[t])]
update_task(t, s) ==
  /\ status' = [status EXCEPT ![t] = s]
  /\ obs' = [obs EXCEPT ![t] = Append(@, status'[t])]
  /\ obs_error' = [obs_error EXCEPT ![t] = Append(@, error'[t])]

\* uuid4(): an id no earlier call returned; used is the set of ids returned.
uuid4_fixed(used) == 1
uuid4(used) == Cardinality(used) + 1

IssuedIds == {task_id[t] : t \in TaskIds} \ {0}

\* self.tasks[task.task_id] = task: the dict keeps one Task per key.
Store(t, id) == {u \in tasks : task_id[u] # id} \cup {t}

\* queue.put / queue.get of the pool's FIFO queue
Put_front(q, x) == <<x>> \o q
Put(q, x) == Append(q, x)

\* build_command / build_merge_command: <<>> when an argv is built, else the
\* message of the ValueError raised.
BuildError(type, inputs) ==
  IF type = "MERGE"
  THEN IF Len(inputs) < 2
       THEN <<"Merging requires at least two input files.">>
       ELSE IF \E i \in 1..Len(inputs) : ~inputs[i]
            THEN <<"Input mapping must include 'path'.">>
            ELSE <<>>
  ELSE <<>>

ExitMessage(code) ==
  IF code = 0 THEN "FFmpeg exited with code 0" ELSE "FFmpeg exited with code 1"

\* `except Exception` of _run_conversion/_run_merge: which exception types
\* the handler catches.
Caught_narrow(type) == type = "FFmpegError"
Caught(type) == TRUE

\* status written by the except branch
ExcStatus_none == "RUNNING"
ExcStatus == "FAILED"

\* An exception leaves service.convert/merge on worker w running task t.
Fail(w, t, exc) ==
  /\ raised' = [raised EXCEPT ![t] = <<exc>>]
  /\ worker' = [worker EXCEPT ![w] = Idle]
  /\ IF Caught(exc.type)
     THEN /\ error' = [error EXCEPT ![t] = <<exc.msg>>]
          /\ update_task(t, ExcStatus)
          /\ future' = [future EXCEPT ![t] = "FINISHED"]
     ELSE /\ future' = [future EXCEPT ![t] = "EXCEPTION"]
          /\ UNCHANGED <<error, status, obs, obs_error>>

\* service.convert/merge returned on worker w running task t.
Succeed(w, t) ==
  /\ UNCHANGED <<error, raised>>
  /\ update_task(t, "COMPLETED")
  /\ future' = [future EXCEPT ![t] = "FINISHED"]
  /\ worker' = [worker EXCEPT ![w] = Idle]

FFmpegError(code, captured) ==
  [type |-> "FFmpegError", msg |-> ExitMessage(code), stderr |-> captured]
ValueError(m) == [type |-> "ValueError", msg |-> m, stderr |-> 0]
CallbackError(m) == [type |-> "CallbackError", msg |-> m, stderr |-> 0]

\* ------------------------------------------------------------ caller

\* submit_conversion / submit_merge: create the Task, _register_task
\* (registry write, QUEUED notification), executor.submit.
Submit(type, inputs, cb) ==
  /\ sd_pc # "draining"
  /\ UNCHANGED <<error, sdVars, worker, procVars, raised, regVars, restVars>>
  /\ LET t == nextId IN
     /\ task_id' = [task_id EXCEPT ![t] = uuid4(IssuedIds)]
     /\ tasks' = Store(t, task_id'[t])
     /\ nextId' = nextId + 1
     /\ task_type' = [task_type EXCEPT ![t] = type]
     /\ input_data' = [input_data EXCEPT ![t] = inputs]
     /\ progress' = [progress EXCEPT ![t] = cb]
     /\ update_task(t, "QUEUED")
     /\ IF shutdown_flag
        THEN /\ rejected' = rejected \cup {t}
             /\ UNCHANGED <<work_queue, future>>
        ELSE /\ work_queue' = Put(work_queue, t)
             /\ future' = [future EXCEPT ![t] = "PENDING"]
             /\ UNCHANGED rejected

submit_conversion ==
  /\ nextId <= MaxTasks
  /\ \E cb \in BOOLEAN : Submit("CONVERT", <<TRUE>>, cb)

submit_merge ==
  /\ nextId <= MaxTasks
  /\ \E r \in MergeRequests : Submit("MERGE", r[1], r[2])

\* the submissions of PoolSpec: conversions without a progress callback
pool_submit ==
  /\ nextId <= MaxPoolTasks
  /\ Submit("CONVERT", <<TRUE>>, FALSE)

\* the submissions of FairSpec: conversions with and without a callback
fair_submit ==
  /\ nextId <= MaxFairTasks
  /\ \E cb \in BOOLEAN : Submit("CONVERT", <<TRUE>>, cb)

\* ---- the same submit calls statement by statement, on several threads

\* The requests of RegSpec: <<task type, inputs>>, no progress callback.
RegRequests == {<<"CONVERT", <<TRUE>>>>, <<"MERGE", <<TRUE, TRUE>>>>}

\* task = Task(str(uuid4()), ...): status is QUEUED by the dataclass default.
SubCreate(c) ==
  /\ caller[c].pc = "idle"
  /\ nextId <= MaxRegTasks
  /\ \E r \in RegRequests :
       LET t == nextId IN
       /\ task_id' = [task_id EXCEPT ![t] = uuid4(IssuedIds)]
       /\ nextId' = nextId + 1
       /\ task_type' = [task_type EXCEPT ![t] = r[1]]
       /\ input_data' = [input_data EXCEPT ![t] = r[2]]
       /\ progress' = [progress EXCEPT ![t] = FALSE]
       /\ status' = [status EXCEPT ![t] = "QUEUED"]
       /\ caller' = [caller EXCEPT ![c] = [pc |-> "created", task |-> t]]
  /\ UNCHANGED <<tasks, rejected, error, future, work_queue, sdVars, worker,
                 procVars, raised, obs, obs_error, lock, restVars>>

\* _register_task: with self._lock
SubLock(c) ==
  /\ caller[c].pc = "created"
  /\ lock = 0
  /\ lock' = c
  /\ caller' = [caller EXCEPT ![c].pc = "locked"]
  /\ UNCHANGED <<taskVars, status, error, future, work_queue, sdVars, worker,
                 procVars, raised, obs, obs_error, restVars>>

\* self.tasks[task.task_id] = task, and the with block ends
SubStore(c) ==
  /\ caller[c].pc = "locked"
  /\ tasks' = Store(caller[c].task, task_id[caller[c].task])
  /\ lock' = 0
  /\ caller' = [caller EXCEPT ![c].pc = "stored"]
  /\ UNCHANGED <<nextId, task_id, task_type, input_data, progress, rejected,
                 status, error, future, work_queue, sdVars, worker, procVars,
                 raised, obs, obs_error, restVars>>

\* self._update_task(task, TaskStatus.QUEUED)
SubNotify(c) ==
  /\ caller[c].pc = "stored"
  /\ UNCHANGED <<taskVars, error, future, work_queue, sdVars, worker,
                 procVars, raised, lock, restVars>>
  /\ update_task(caller[c].task, "QUEUED")
  /\ caller' = [caller EXCEPT ![c].pc = "notified"]

\* future = self.executor.submit(...); task.future = future; return task.
\* executor.submit takes the pool's shutdown lock and raises RuntimeError
\* once the pool is shut down.
SubSchedule(c) ==
  /\ caller[c].pc = "notified"
  /\ sd_pc # "draining"
  /\ LET t == caller[c].task IN
     IF shutdown_flag
     THEN /\ rejected' = rejected \cup {t}
          /\ UNCHANGED <<work_queue, future>>
     ELSE /\ work_queue' = Put(work_queue, t)
          /\ future' = [future EXCEPT ![t] = "PENDING"]
          /\ UNCHANGED rejected
  /\ caller' = [caller EXCEPT ![c] = Idle]
  /\ UNCHANGED <<tasks, nextId, task_id, task_type, input_data, progress,
                 status, error, sdVars, worker, procVars, raised, obs,
                 obs_error, lock, restVars>>

\* shutdown(): executor.shutdown(wait=False, cancel_futures=True).
\* Under the pool's shutdown lock: set the flag, drain the queue cancelling
\* each future, put None, return.  Workers keep taking items meanwhile.
shutdown_call ==
  /\ sd_pc = "idle"
  /\ shutdown_flag' = TRUE
  /\ sd_pc' = "draining"
  /\ UNCHANGED <<taskVars, status, error, future, work_queue, worker,
                 procVars, raised, obs, obs_error, regVars, restVars>>

shutdown_drain ==
  /\ sd_pc = "draining"
  /\ cancel_futures
  /\ work_queue # <<>>
  /\ work_queue' = Tail(work_queue)
  /\ future' = [future EXCEPT ![Head(work_queue)] = "CANCELLED"]
  /\ UNCHANGED <<taskVars, status, error, sdVars, worker, procVars, raised,
                 obs, obs_error, regVars, restVars>>

shutdown_return ==
  /\ sd_pc = "draining"
  /\ cancel_futures => work_queue = <<>>
  /\ work_queue' = Put(work_queue, NoItem)
  /\ sd_pc' = "done"
  /\ UNCHANGED <<taskVars, status, error, future, shutdown_flag,
                 worker, procVars, raised, obs, obs_error, regVars, restVars>>

\* ------------------------------------------------------------ workers

\* worker thread: work_queue.get(); None ends the thread after re-putting it.
Take(w) ==
  /\ worker[w].pc = "idle"
  /\ work_queue # <<>>
  /\ LET item == Head(work_queue) IN
     IF item = NoItem
     THEN /\ work_queue' = Put(Tail(work_queue), NoItem)
          /\ worker' = [worker EXCEPT ![w] = [pc |-> "exited", task |-> 0]]
     ELSE /\ work_queue' = Tail(work_queue)
          /\ worker' = [worker EXCEPT ![w] = [pc |-> "taken", task |-> item]]
  /\ UNCHANGED <<taskVars, status, error, future, sdVars, procVars, raised,
                 obs, obs_error, regVars, restVars>>

\* work item runs: future leaves PENDING, then _run_conversion/_run_merge
\* does _update_task(task, RUNNING).
Start(w) ==
  /\ worker[w].pc = "taken"
  /\ UNCHANGED <<taskVars, error, work_queue, sdVars, procVars, raised, regVars, restVars>>
  /\ LET t == worker[w].task IN
     IF future[t] = "CANCELLED"
     THEN /\ worker' = [worker EXCEPT ![w] = Idle]
          /\ UNCHANGED <<status, obs, obs_error, future>>
     ELSE /\ future' = [future EXCEPT ![t] = "RUNNING"]
          /\ update_task(t, "RUNNING")
          /\ worker' = [worker EXCEPT ![w] = [pc |-> "started", task |-> t]]

\* service.convert/merge: build the command (may raise), spawn the child.
Launch(w) ==
  /\ worker[w].pc = "started"
  /\ LET t == worker[w].task
         e == BuildError(task_type[t], input_data[t]) IN
     IF e # <<>>
     THEN /\ Fail(w, t, ValueError(e[1]))
          /\ UNCHANGED proc
     ELSE /\ proc' = [proc EXCEPT ![t] = "running"]
          /\ worker' = [worker EXCEPT ![w] = [pc |-> "monitoring", task |-> t]]
          /\ UNCHANGED <<status, error, future, raised, obs, obs_error>>
  /\ UNCHANGED <<taskVars, work_queue, sdVars, rc, lines, regVars, restVars>>

Monitor(t) == {w \in Workers : worker[w] = [pc |-> "monitoring", task |-> t]}

\* The child writes one diagnostic line.  With a progress callback the
\* monitor's loop reads it and calls callback(progress), which may raise:
\* the exception leaves run_with_progress without process.wait().
ChildLine(t) ==
  /\ proc[t] = "running"
  /\ lines[t] < MaxLines
  /\ lines' = [lines EXCEPT ![t] = @ + 1]
  /\ \/ UNCHANGED <<status, error, future, worker, raised, obs, obs_error>>
     \/ /\ progress[t]
        /\ \E w \in Monitor(t), m \in CallbackMessages : Fail(w, t, CallbackError(m))
  /\ UNCHANGED <<taskVars, work_queue, sdVars, proc, rc, regVars, restVars>>

\* The child exits (closing its stderr).
ChildExit(t, code) ==
  /\ proc[t] = "running"
  /\ proc' = [proc EXCEPT ![t] = "exited"]
  /\ rc' = [rc EXCEPT ![t] = code]
  /\ UNCHANGED <<taskVars, status, error, future, work_queue, sdVars, worker,
                 lines, raised, obs, obs_error, regVars, restVars>>

\* The executing call sees the child's exit.
\*  with callback: process.wait(), callback(final_update), then FFmpegError
\*    with stderr="" when the code is not 0;
\*  without: subprocess.run returned, FFmpegError with the captured stderr.
Finish(w) ==
  /\ worker[w].pc = "monitoring"
  /\ LET t == worker[w].task IN
     /\ proc[t] = "exited"
     /\ IF progress[t]
        THEN \/ \E m \in CallbackMessages : Fail(w, t, CallbackError(m))
             \/ IF rc[t] # 0 THEN Fail(w, t, FFmpegError(rc[t], 0))
                             ELSE Succeed(w, t)
        ELSE IF rc[t] # 0 THEN Fail(w, t, FFmpegError(rc[t], lines[t]))
                          ELSE Succeed(w, t)
  /\ UNCHANGED <<taskVars, work_queue, sdVars, procVars, regVars, restVars>>

Run ==
  \/ shutdown_call
  \/ shutdown_drain
  \/ shutdown_return
  \/ \E w \in Workers : Take(w)
  \/ \E w \in Workers : Start(w)
  \/ \E w \in Workers : Launch(w)
  \/ \E t \in TaskIds : ChildLine(t)
  \/ \E t \in TaskIds, code \in {0, 1} : ChildExit(t, code)
  \/ \E w \in Workers : Finish(w)

Next ==
  \/ submit_conversion
  \/ submit_merge
  \/ Run

Spec == Init /\ [][Next]_vars

\* The pool under load: more submissions than workers.
PoolNext ==
  \/ pool_submit
  \/ Run

PoolSpec == Init /\ [][PoolNext]_vars

\* Several threads submitting concurrently, statement by statement.
RegNext ==
  \/ \E c \in Callers : SubCreate(c)
  \/ \E c \in Callers : SubLock(c)
  \/ \E c \in Callers : SubStore(c)
  \/ \E c \in Callers : SubNotify(c)
  \/ \E c \in Callers : SubSchedule(c)
  \/ Run

RegSpec == Init /\ [][RegNext]_vars

\* Worker threads are scheduled and a spawned child exits: while a step of a
\* worker, or the exit of a child, is possible, one is eventually taken.
Progress ==
  \/ \E w \in Workers : Take(w) \/ Start(w) \/ Launch(w) \/ Finish(w)
  \/ \E t \in TaskIds, code \in {0, 1} : ChildExit(t, code)

FairNext ==
  \/ fair_submit
  \/ Run

FairSpec == Init /\ [][FairNext]_vars /\ WF_vars(Progress)

\* ------------------------------------------------- progress monitor
\* run_with_progress(command, total_duration, callback, check=...): one call.
\* Floats are modelled as exact fractions <<numerator, denominator>> with a
\* positive denominator, in lowest terms; <<>> is None.  A line is the
\* sequence of its characters, without the line terminator.

Abs(n) == IF n < 0 THEN -n ELSE n

RECURSIVE GCD(_, _)
GCD(a, b) == IF b = 0 THEN a ELSE GCD(b, a % b)

Rat(n, d) == LET g == GCD(Abs(n), d) IN <<n \div g, d \div g>>
RAdd(a, b) == Rat(a[1] * b[2] + b[1] * a[2], a[2] * b[2])
RSub(a, b) == Rat(a[1] * b[2] - b[1] * a[2], a[2] * b[2])
RMul(a, b) == Rat(a[1] * b[1], a[2] * b[2])
RDiv(a, b) == IF b[1] > 0 THEN Rat(a[1] * b[2], a[2] * b[1])
                          ELSE Rat(-(a[1] * b[2]), a[2] * (-b[1]))
RLess(a, b) == a[1] * b[2] < b[1] * a[2]
Zero == <<0, 1>>
One == <<1, 1>>

\* min(x, 1.0) and max(x, 0)
min_one_off(x) == x
min_one(x) == IF RLess(One, x) THEN One ELSE x
max_zero_off(x) == x
max_zero(x) == IF RLess(x, Zero) THEN Zero ELSE x

\* The regular expression classes \d and \s, and [\d\.]
Digit == {"0", "1", "2", "3", "4", "5", "6", "7", "8", "9"}
Space == {" "}
DigitOrDot == Digit \cup {"."}

DigitVal(c) ==
  CASE c = "0" -> 0 [] c = "1" -> 1 [] c = "2" -> 2 [] c = "3" -> 3
    [] c = "4" -> 4 [] c = "5" -> 5 [] c = "6" -> 6 [] c = "7" -> 7
    [] c = "8" -> 8 [] c = "9" -> 9

\* The end (exclusive) of the longest run of class characters from i on:
\* what a greedy * or + consumes.
RECURSIVE SpanEnd(_, _, _)
SpanEnd(s, i, class) ==
  IF i <= Len(s) /\ s[i] \in class THEN SpanEnd(s, i + 1, class) ELSE i

StartsAt(s, i, lit) ==
  /\ i + Len(lit) - 1 <= Len(s)
  /\ \A k \in 1..Len(lit) : s[i + k - 1] = lit[k]

\* int() of the digits s[a], ..., s[b - 1]
RECURSIVE ToInt(_, _, _)
ToInt(s, a, b) ==
  IF b <= a THEN 0 ELSE ToInt(s, a, b - 1) * 10 + DigitVal(s[b - 1])

RECURSIVE Pow10(_)
Pow10(k) == IF k = 0 THEN 1 ELSE 10 * Pow10(k - 1)

\* float() of s[a], ..., s[b - 1], a run of digits and dots: <<>> when
\* float() raises ValueError (more than one dot, or no digit).
ToFloat(s, a, b) ==
  LET dots == {k \in a..(b - 1) : s[k] = "."} IN
  IF Cardinality(dots) > 1 \/ Cardinality(dots) = b - a THEN <<>>
  ELSE LET dot == IF dots = {} THEN b ELSE CHOOSE k \in dots : TRUE
           frac == IF dot < b THEN b - dot - 1 ELSE 0
       IN RAdd(Rat(ToInt(s, a, dot), 1),
               Rat(ToInt(s, dot + 1, b), Pow10(frac)))

\* TIME_RE matched at position i, through _parse_timecode: the seconds,
\* or <<>> when the expression does not match there.
TimeAt(s, i) ==
  IF ~StartsAt(s, i, <<"t", "i", "m", "e", "=">>) THEN <<>> ELSE
  LET h0 == i + 5
      h1 == SpanEnd(s, h0, Digit) IN
  IF h1 = h0 \/ h1 > Len(s) \/ s[h1] # ":" THEN <<>> ELSE
  LET m0 == h1 + 1
      m1 == SpanEnd(s, m0, Digit) IN
  IF m1 = m0 \/ m1 > Len(s) \/ s[m1] # ":" THEN <<>> ELSE
  LET s0 == m1 + 1
      s1 == SpanEnd(s, s0, Digit) IN
  IF s1 = s0 THEN <<>> ELSE
  LET f0 == IF s1 <= Len(s) /\ s[s1] = "." THEN s1 + 1 ELSE s1
      f1 == SpanEnd(s, f0, Digit)
  IN RAdd(Rat(ToInt(s, h0, h1) * 3600 + ToInt(s, m0, m1) * 60, 1),
          ToFloat(s, s0, f1))

\* FRAME_RE matched at position i: <<int(group 1)>>, or <<>>.
FrameAt(s, i) ==
  IF ~StartsAt(s, i, <<"f", "r", "a", "m", "e", "=">>) THEN <<>> ELSE
  LET d0 == SpanEnd(s, i + 6, Space)
      d1 == SpanEnd(s, d0, Digit)
  IN IF d1 = d0 THEN <<>> ELSE <<ToInt(s, d0, d1)>>

\* SPEED_RE matched at position i: the bounds of group 1, or <<>>.
SpeedAt(s, i) ==
  IF ~StartsAt(s, i, <<"s", "p", "e", "e", "d", "=">>) THEN <<>> ELSE
  LET d0 == SpanEnd(s, i + 6, Space)
      d1 == SpanEnd(s, d0, DigitOrDot)
  IN IF d1 = d0 \/ d1 > Len(s) \/ s[d1] # "x" THEN <<>> ELSE <<d0, d1>>

\* pattern.search(line) finds the leftmost position where the pattern matches.
Leftmost(hits) == CHOOSE i \in hits : \A j \in hits : i <= j

\* TIME_RE.search(line), FRAME_RE.search(line), SPEED_RE.search(line)
time_search(s) ==
  LET hits == {i \in 1..Len(s) : TimeAt(s, i) # <<>>} IN
  IF hits = {} THEN <<>> ELSE TimeAt(s, Leftmost(hits))
frame_search(s) ==
  LET hits == {i \in 1..Len(s) : FrameAt(s, i) # <<>>} IN
  IF hits = {} THEN <<>> ELSE FrameAt(s, Leftmost(hits))
speed_search(s) ==
  LET hits == {i \in 1..Len(s) : SpeedAt(s, i) # <<>>} IN
  IF hits = {} THEN <<>> ELSE SpeedAt(s, Leftmost(hits))

\* str.rstrip()
rstrip_off(s) == s
rstrip(s) ==
  LET keep == {k \in 1..Len(s) : s[k] \notin Space} IN
  IF keep = {} THEN <<>>
  ELSE SubSeq(s, 1, CHOOSE k \in keep : \A j \in keep : j <= k)

\* bool(x) of an optional float
Truthy(x) == x # <<>> /\ x # Zero

\* _create_progress_update(line, total_duration, start_time), where elapsed
\* is what time.time() - start_time evaluates to.
create_progress_update(line, total, elapsed) ==
  LET current_time == time_search(line)
      progress_value ==
        IF current_time # <<>> /\ Truthy(total) /\ RLess(Zero, total)
        THEN min_one(RDiv(current_time, total)) ELSE <<>>
      frame_val == frame_search(line)
      group == speed_search(line)
      speed_val == IF group = <<>> THEN <<>>
                   ELSE ToFloat(line, group[1], group[2])
      eta ==
        IF progress_value = <<>> THEN <<>>
        ELSE IF Truthy(speed_val) /\ RLess(Zero, speed_val) /\ Truthy(total)
             THEN max_zero(RDiv(RSub(total, IF Truthy(current_time)
                                             THEN current_time ELSE Zero),
                                speed_val))
             ELSE IF RLess(Zero, progress_value)
                  THEN max_zero(RMul(RDiv(elapsed, progress_value),
                                     RSub(One, progress_value)))
                  ELSE <<>>
  IN [progress |-> progress_value, current_time |-> current_time,
      current_frame |-> frame_val, speed |-> speed_val, eta |-> eta,
      raw |-> line, done |-> FALSE, return_code |-> <<>>]

\* final_update: raw holds the whole message as one element.
final_update_keep(code, total, last) ==
  [progress |-> last,
   current_time |-> IF code = 0 THEN total ELSE <<>>,
   current_frame |-> <<>>, speed |-> <<>>,
   eta |-> IF code = 0 THEN Zero ELSE <<>>,
   raw |-> <<ExitMessage(code)>>, done |-> TRUE, return_code |-> <<code>>]
final_update(code, total, last) ==
  [progress |-> IF code = 0 THEN One ELSE last,
   current_time |-> IF code = 0 THEN total ELSE <<>>,
   current_frame |-> <<>>, speed |-> <<>>,
   eta |-> IF code = 0 THEN Zero ELSE <<>>,
   raw |-> <<ExitMessage(code)>>, done |-> TRUE, return_code |-> <<code>>]

\* if progress.progress is not None: last_progress = progress.progress
keep_last_always(last, p) == p
keep_last(last, p) == IF p # <<>> THEN p ELSE last

\* Lines ffmpeg writes to stderr.
\* "frame=100 time=00:00:05.00 speed=2.0x"
Line_progress ==
  <<"f", "r", "a", "m", "e", "=", "1", "0", "0", " ", "t", "i",
    "m", "e", "=", "0", "0", ":", "0", "0", ":", "0", "5", ".",
    "0", "0", " ", "s", "p", "e", "e", "d", "=", "2", ".", "0",
    "x">>
\* "frame=  7 time=00:00:12.5 speed=0.5x "
Line_overrun ==
  <<"f", "r", "a", "m", "e", "=", " ", " ", "7", " ", "t", "i",
    "m", "e", "=", "0", "0", ":", "0", "0", ":", "1", "2", ".",
    "5", " ", "s", "p", "e", "e", "d", "=", "0", ".", "5", "x",
    " ">>
\* "Press [q] to stop"
Line_banner ==
  <<"P", "r", "e", "s", "s", " ", "[", "q", "]", " ", "t", "o",
    " ", "s", "t", "o", "p">>
\* "time=N/A speed=1.2.3x"
Line_unknown ==
  <<"t", "i", "m", "e", "=", "N", "/", "A", " ", "s", "p", "e",
    "e", "d", "=", "1", ".", "2", ".", "3", "x">>
\* "time=00:00:02.5 speed=0.0x"
Line_stalled ==
  <<"t", "i", "m", "e", "=", "0", "0", ":", "0", "0", ":", "0",
    "2", ".", "5", " ", "s", "p", "e", "e", "d", "=", "0", ".",
    "0", "x">>
\* "time=00:00:00 bitrate=N/A"
Line_start ==
  <<"t", "i", "m", "e", "=", "0", "0", ":", "0", "0", ":", "0",
    "0", " ", "b", "i", "t", "r", "a", "t", "e", "=", "N", "/",
    "A">>
\* " "
Line_blank ==
  <<" ">>

StderrLines == {Line_progress, Line_overrun, Line_banner, Line_unknown,
                Line_stalled, Line_start, Line_blank}

\* total_duration arguments: None, 0, 10 seconds, and a negative value.
Durations == {<<>>, Zero, <<10, 1>>, <<-5, 1>>}

\* time.time() - start_time: the wall clock may be set back during a run.
Elapsed == {<<-1, 1>>, <<8, 1>>}

ExitCodes == {0, 1}

MonInit ==
  /\ TaskInit
  /\ GuiOff
  /\ BuildOff
  /\ mon_pc = "reading"
  /\ total_duration \in Durations
  /\ check \in BOOLEAN
  /\ stdout = <<>>
  /\ clock = <<>>
  /\ updates = <<>>
  /\ last_progress = Zero
  /\ return_code = <<>>
  /\ outcome = "none"

\* One iteration of "for line in process.stderr": the callback returns
\* (ok) or raises, and its exception leaves run_with_progress.
ReadLine(line, elapsed, ok) ==
  /\ mon_pc = "reading"
  /\ Len(stdout) < MaxMonLines
  /\ LET u == create_progress_update(rstrip(line), total_duration, elapsed) IN
     /\ stdout' = Append(stdout, line)
     /\ clock' = Append(clock, elapsed)
     /\ last_progress' = keep_last(last_progress, u.progress)
     /\ updates' = Append(updates, u)
  /\ mon_pc' = IF ok THEN "reading" ELSE "done"
  /\ outcome' = IF ok THEN outcome ELSE "CallbackError"
  /\ UNCHANGED <<total_duration, check, return_code>>
  /\ UNCHANGED <<taskVars, status, error, future, work_queue, sdVars, worker,
                 procVars, raised, obs, obs_error, regVars, buildVars, guiVars>>

\* End of the stream: process.wait(), the final update, and the return or
\* the FFmpegError.
Exit(code, ok) ==
  /\ mon_pc = "reading"
  /\ return_code' = <<code>>
  /\ updates' = Append(updates,
                       final_update(code, total_duration, last_progress))
  /\ mon_pc' = "done"
  /\ outcome' = IF ~ok THEN "CallbackError"
                ELSE IF check /\ code # 0 THEN "FFmpegError"
                ELSE "returned"
  /\ UNCHANGED <<total_duration, check, stdout, clock, last_progress>>
  /\ UNCHANGED <<taskVars, status, error, future, work_queue, sdVars, worker,
                 procVars, raised, obs, obs_error, regVars, buildVars, guiVars>>

MonNext ==
  \/ \E line \in StderrLines, elapsed \in Elapsed, ok \in BOOLEAN :
       ReadLine(line, elapsed, ok)
  \/ \E code \in ExitCodes, ok \in BOOLEAN : Exit(code, ok)

MonSpec == MonInit /\ [][MonNext]_vars

\* --------------------------------------------------- command builder
\* build_command and build_merge_command of FFmpegWrapper.  An optional
\* value is <<>> (None, or a missing key) or <<v>>; argv is a sequence of
\* strings.

TruthyStr(x) == x # <<>> /\ x[1] # ""
TruthyInt(x) == x # <<>> /\ x[1] # 0

\* sep.join(parts)
RECURSIVE Join(_, _)
Join(parts, sep) ==
  IF parts = <<>> THEN ""
  ELSE IF Len(parts) = 1 THEN parts[1]
  ELSE parts[1] \o sep \o Join(Tail(parts), sep)

\* [flag, str(value)] when present is true
Flag(present, flag, text) == IF present THEN <<flag, text>> ELSE <<>>

\* str.lower(), character by character
UpperCase == <<"A", "B", "C", "D", "E", "F", "G", "H", "I", "J", "K", "L", "M",
               "N", "O", "P", "Q", "R", "S", "T", "U", "V", "W", "X", "Y", "Z">>
LowerCase == <<"a", "b", "c", "d", "e", "f", "g", "h", "i", "j", "k", "l", "m",
               "n", "o", "p", "q", "r", "s", "t", "u", "v", "w", "x", "y", "z">>
lower(s) ==
  [i \in 1..Len(s) |->
     IF \E k \in 1..Len(UpperCase) : UpperCase[k] = s[i]
     THEN LowerCase[CHOOSE k \in 1..Len(UpperCase) : UpperCase[k] = s[i]]
     ELSE s[i]]

\* if crf is not None: -crf ... elif bitrate: -b:v ...
rate_control_both(crf, bitrate) ==
  (IF crf # <<>> THEN <<"-crf", ToString(crf[1])>> ELSE <<>>)
    \o (IF TruthyStr(bitrate) THEN <<"-b:v", bitrate[1]>> ELSE <<>>)
rate_control(crf, bitrate) ==
  IF crf # <<>> THEN <<"-crf", ToString(crf[1])>>
  ELSE IF TruthyStr(bitrate) THEN <<"-b:v", bitrate[1]>>
  ELSE <<>>

\* a dict argument is true when it has a key
HasKey(x) == x # <<>> /\ \E k \in DOMAIN x[1] : x[1][k] # <<>>

\* str() of the float h / 100, for the h whose float is printed with its
\* exact decimal digits: "0.0", "0.1", "1.5", "-0.2", "1.07"
float_str(h) ==
  LET a == Abs(h)
      f == a % 100
  IN (IF h < 0 THEN "-" ELSE "") \o ToString(a \div 100) \o "."
       \o (IF f % 10 = 0 THEN ToString(f \div 10)
           ELSE IF f < 10 THEN "0" \o ToString(f)
           ELSE ToString(f))

\* The rotation clause of _build_video_filters, when there is one.
rotation_always(rotate) ==
  IF rotate = <<>> THEN <<>>
  ELSE <<"rotate=" \o ToString(rotate[1]) \o ".0*PI/180">>
rotation(rotate) ==
  IF rotate = <<90>> THEN <<"transpose=1">>
  ELSE IF rotate = <<180>> THEN <<"transpose=2,transpose=2">>
  ELSE IF rotate = <<270>> THEN <<"transpose=2">>
  ELSE IF TruthyInt(rotate) /\ rotate[1] % 360 # 0
       THEN <<"rotate=" \o ToString(rotate[1]) \o ".0*PI/180">>
       ELSE <<>>

\* color.get(key, 0)
get0(x) == IF x = <<>> THEN 0 ELSE x[1]

\* _build_video_filters(video): crop, then rotation, then eq
build_video_filters(video) ==
  LET crop == video.crop
      crop_part ==
        IF crop # <<>> /\ TruthyInt(crop[1].w) /\ TruthyInt(crop[1].h)
        THEN <<"crop=" \o ToString(crop[1].w[1]) \o ":"
                 \o ToString(crop[1].h[1]) \o ":"
                 \o ToString(get0(crop[1].x)) \o ":"
                 \o ToString(get0(crop[1].y))>>
        ELSE <<>>
      color == video.color
      color_part ==
        IF HasKey(color)
        THEN <<"eq=brightness=" \o float_str(get0(color[1].brightness))
                 \o ":contrast=" \o float_str(get0(color[1].contrast) + 100)
                 \o ":saturation="
                 \o float_str(get0(color[1].saturation) + 100)>>
        ELSE <<>>
  IN Join(crop_part \o rotation(video.rotate) \o color_part, ",")

\* _apply_video_params(cmd, video, allow_filters=...): the flags appended
apply_video_params(video, allow_filters) ==
  (IF TruthyStr(video.codec) THEN <<"-c:v", video.codec[1]>> ELSE <<>>)
    \o rate_control(video.crf, video.bitrate)
    \o (IF video.fps # <<>> THEN <<"-r", ToString(video.fps[1])>> ELSE <<>>)
    \o (IF video.resolution # <<>> /\ video.resolution[1] # <<>>
        THEN <<"-s", Join(video.resolution[1], "")>> ELSE <<>>)
    \o (IF TruthyStr(video.preset) THEN <<"-preset", video.preset[1]>>
        ELSE <<>>)
    \o (IF TruthyStr(video.tune) THEN <<"-tune", video.tune[1]>> ELSE <<>>)
    \o Flag(allow_filters /\ build_video_filters(video) # "", "-vf",
            build_video_filters(video))

\* _build_audio_filters(audio)
build_audio_filters(audio) ==
  LET loud == audio.loudnorm
      loud_part ==
        IF HasKey(loud)
        THEN <<"loudnorm=I="
                 \o ToString(IF loud[1].target = <<>> THEN -16
                             ELSE loud[1].target[1])
                 \o ":TP="
                 \o ToString(IF loud[1].true_peak = <<>> THEN -1
                             ELSE loud[1].true_peak[1])
                 \o ":LRA=11">>
        ELSE <<>>
      den == audio.denoise
      den_part ==
        IF HasKey(den)
        THEN <<"afftdn=nr=" \o ToString(IF den[1].strength = <<>> THEN 12
                                         ELSE den[1].strength[1])>>
        ELSE <<>>
  IN Join(loud_part \o den_part, ",")

\* _apply_audio_params(cmd, audio): the flags appended
apply_audio_params(audio) ==
  (IF TruthyStr(audio.codec) THEN <<"-c:a", audio.codec[1]>> ELSE <<>>)
    \o (IF TruthyStr(audio.bitrate) THEN <<"-b:a", audio.bitrate[1]>>
        ELSE <<>>)
    \o (IF TruthyInt(audio.sample_rate)
        THEN <<"-ar", ToString(audio.sample_rate[1])>> ELSE <<>>)
    \o (IF TruthyInt(audio.channels)
        THEN <<"-ac", ToString(audio.channels[1])>> ELSE <<>>)
    \o Flag(build_audio_filters(audio) # "", "-af",
            build_audio_filters(audio))

\* The part of argv both build functions start with.
Preamble(params) ==
  <<"ffmpeg", "-hide_banner",
    IF params.overwrite = <<>> \/ params.overwrite[1] THEN "-y" ELSE "-n">>

\* extra_args, when it is a list or tuple
Extra(params) ==
  IF params.extra_args = <<>> THEN <<>> ELSE params.extra_args[1]

\* build_command(input_file, output_file, params)
build_command_audio_first(input_file, output_file, params) ==
  Preamble(params)
    \o (IF params.start # <<>> THEN <<"-ss", ToString(params.start[1])>>
        ELSE <<>>)
    \o <<"-i", input_file>>
    \o (IF params.end # <<>> THEN <<"-to", ToString(params.end[1])>>
        ELSE <<>>)
    \o apply_audio_params(params.audio)
    \o apply_video_params(params.video, TRUE)
    \o Extra(params)
    \o <<output_file>>
build_command(input_file, output_file, params) ==
  Preamble(params)
    \o (IF params.start # <<>> THEN <<"-ss", ToString(params.start[1])>>
        ELSE <<>>)
    \o <<"-i", input_file>>
    \o (IF params.end # <<>> THEN <<"-to", ToString(params.end[1])>>
        ELSE <<>>)
    \o apply_video_params(params.video, TRUE)
    \o apply_audio_params(params.audio)
    \o Extra(params)
    \o <<output_file>>

\* _normalize_input_spec(item): <<the dict>>, or <<>> when it raises
\* ValueError.  A str item has form "str" and only a path.
normalize_input_spec(item) ==
  IF item.form = "str"
  THEN <<[path |-> item.path[1], start |-> <<>>, end |-> <<>>,
          width |-> <<>>, height |-> <<>>, has_audio |-> <<>>]>>
  ELSE IF item.path = <<>> THEN <<>>
  ELSE <<[path |-> item.path[1], start |-> item.start, end |-> item.end,
          width |-> item.width, height |-> item.height,
          has_audio |-> item.has_audio]>>

\* int(text) for a text of decimal digits: <<>> when it raises ValueError
int(text) ==
  IF text # <<>> /\ \A k \in 1..Len(text) : text[k] \in Digit
  THEN <<ToInt(text, 1, Len(text) + 1)>> ELSE <<>>

\* _resolve_target_resolution(specs, video_params)
resolve_target_resolution_fallback(specs, video) == <<1920, 1080>>
resolve_target_resolution(specs, video) ==
  LET res == IF video.resolution = <<>> THEN <<>>
             ELSE lower(video.resolution[1])
      cuts == {k \in 1..Len(res) : res[k] = "x"}
      cut == CHOOSE k \in cuts : TRUE
      width == int(SubSeq(res, 1, cut - 1))
      height == int(SubSeq(res, cut + 1, Len(res)))
      sized == {i \in 1..Len(specs) :
                  TruthyInt(specs[i].width) /\ TruthyInt(specs[i].height)}
      first == CHOOSE i \in sized : \A j \in sized : i <= j
  IN IF /\ res # <<>>
        /\ res # <<"a", "u", "t", "o">>
        /\ Cardinality(cuts) = 1
        /\ width # <<>>
        /\ height # <<>>
     THEN <<width[1], height[1]>>
     ELSE IF sized # {}
          THEN <<specs[first].width[1], specs[first].height[1]>>
          ELSE <<1920, 1080>>

\* spec.get("has_audio", True)
has_audio_strict(spec) == spec.has_audio = <<TRUE>>
has_audio(spec) == spec.has_audio = <<>> \/ spec.has_audio[1]

\* One entry of parts per input: its video chain and, with audio, its audio
\* chain.
RECURSIVE Chains(_, _, _, _, _)
Chains(specs, i, size, audio_enabled, audio_rate) ==
  IF i > Len(specs) THEN <<>>
  ELSE <<"[" \o ToString(i - 1) \o ":v]scale=" \o size
           \o ":force_original_aspect_ratio=decrease,pad=" \o size
           \o ":(ow-iw)/2:(oh-ih)/2,setsar=1,setpts=PTS-STARTPTS[v"
           \o ToString(i - 1) \o "]">>
         \o (IF ~audio_enabled THEN <<>>
             ELSE IF has_audio(specs[i])
             THEN <<"[" \o ToString(i - 1)
                      \o ":a]aresample=async=1:first_pts=0[a"
                      \o ToString(i - 1) \o "]">>
             ELSE <<"anullsrc=channel_layout=stereo:sample_rate="
                      \o ToString(audio_rate) \o ",asetpts=PTS-STARTPTS[a"
                      \o ToString(i - 1) \o "]">>)
         \o Chains(specs, i + 1, size, audio_enabled, audio_rate)

\* _build_concat_filter(specs, width, height, audio_enabled, audio_rate):
\* the graph; the labels returned are [vout] and, with audio, [aout].
build_concat_filter(specs, width, height, audio_enabled, audio_rate) ==
  LET n == Len(specs)
      size == ToString(width) \o ":" \o ToString(height)
      video_labels == [i \in 1..n |-> "[v" \o ToString(i - 1) \o "]"]
      audio_labels == [i \in 1..n |-> "[a" \o ToString(i - 1) \o "]"]
      concat_inputs ==
        Join(video_labels \o (IF audio_enabled THEN audio_labels ELSE <<>>),
             "")
      concat_line ==
        concat_inputs \o "concat=n=" \o ToString(n) \o ":v=1:a="
          \o (IF audio_enabled THEN "1" ELSE "0") \o "[vout]"
          \o (IF audio_enabled THEN "[aout]" ELSE "")
  IN Join(Chains(specs, 1, size, audio_enabled, audio_rate)
            \o <<concat_line>>, ";")

\* The -ss / -i / -to flags of the inputs, in input order.
RECURSIVE InputFlags(_)
InputFlags(specs) ==
  IF specs = <<>> THEN <<>>
  ELSE (IF specs[1].start # <<>>
        THEN <<"-ss", ToString(specs[1].start[1])>> ELSE <<>>)
         \o <<"-i", specs[1].path>>
         \o (IF specs[1].end # <<>>
             THEN <<"-to", ToString(specs[1].end[1])>> ELSE <<>>)
         \o InputFlags(Tail(specs))

\* build_merge_command(inputs, output_file, params): the argv returned, or
\* the exception raised.
build_merge_command(inputs, output_file, params) ==
  IF Len(inputs) < 2
  THEN [cmd |-> <<>>,
        exc |-> <<ValueError("Merging requires at least two input files.")>>]
  ELSE IF \E i \in 1..Len(inputs) : normalize_input_spec(inputs[i]) = <<>>
  THEN [cmd |-> <<>>,
        exc |-> <<ValueError("Input mapping must include 'path'.")>>]
  ELSE
  LET specs == [i \in 1..Len(inputs) |-> normalize_input_spec(inputs[i])[1]]
      target == resolve_target_resolution(specs, params.video)
      audio_enabled == \E i \in 1..Len(specs) : has_audio(specs[i])
      audio_rate == IF TruthyInt(params.audio.sample_rate)
                    THEN params.audio.sample_rate[1] ELSE 48000
      graph == build_concat_filter(specs, target[1], target[2],
                                   audio_enabled, audio_rate)
  IN [cmd |-> Preamble(params)
                \o InputFlags(specs)
                \o <<"-filter_complex", graph, "-map", "[vout]">>
                \o Flag(audio_enabled, "-map", "[aout]")
                \o apply_video_params(params.video, FALSE)
                \o apply_audio_params(params.audio)
                \o Extra(params)
                \o <<output_file>>,
      exc |-> <<>>]

\* ---- the requests of BuildSpec
NoVideo ==
  [codec |-> <<>>, crf |-> <<>>, bitrate |-> <<>>, fps |-> <<>>,
   resolution |-> <<>>, preset |-> <<>>, tune |-> <<>>, crop |-> <<>>,
   rotate |-> <<>>, color |-> <<>>]
NoAudio ==
  [codec |-> <<>>, bitrate |-> <<>>, sample_rate |-> <<>>, channels |-> <<>>,
   loudnorm |-> <<>>, denoise |-> <<>>]

\* Video blocks: crf None, 0 or 23; bitrate None, "" (an empty form field)
\* or "2M"; with and without a codec.
RateVideos ==
  {[NoVideo EXCEPT !.codec = c, !.crf = r, !.bitrate = b] :
     c \in {<<>>, <<"libx264">>}, r \in {<<>>, <<0>>, <<23>>},
     b \in {<<>>, <<"">>, <<"2M">>}}

BuildParams ==
  {[overwrite |-> <<>>, start |-> <<>>, end |-> <<>>, video |-> v,
    audio |-> NoAudio, extra_args |-> e] :
     v \in RateVideos, e \in {<<>>, <<<<"-movflags", "+faststart">>>>}}

\* Inputs: a path string, a full mapping, a mapping without "path", a
\* mapping whose path is the empty string.
Item_str ==
  [form |-> "str", path |-> <<"a.mp4">>, start |-> <<>>, end |-> <<>>,
   width |-> <<>>, height |-> <<>>, has_audio |-> <<>>]
Item_map ==
  [form |-> "map", path |-> <<"b.mp4">>, start |-> <<2>>, end |-> <<5>>,
   width |-> <<1280>>, height |-> <<720>>, has_audio |-> <<FALSE>>]
Item_nopath ==
  [form |-> "map", path |-> <<>>, start |-> <<1>>, end |-> <<>>,
   width |-> <<>>, height |-> <<>>, has_audio |-> <<>>]
Item_emptypath ==
  [form |-> "map", path |-> <<"">>, start |-> <<>>, end |-> <<>>,
   width |-> <<>>, height |-> <<>>, has_audio |-> <<>>]
Items == {Item_str, Item_map, Item_nopath, Item_emptypath}

InputLists == UNION {[1..n -> Items] : n \in 0..MaxInputs}

BuildRequests ==
  {[kind |-> "merge", inputs |-> l, output_file |-> "out.mp4", params |-> p] :
     l \in InputLists, p \in BuildParams}
  \cup
  {[kind |-> "convert", inputs |-> <<Item_str>>, output_file |-> "out.mp4",
    params |-> p] : p \in BuildParams}

BuildInit ==
  /\ TaskInit
  /\ GuiOff
  /\ MonOff
  /\ build_pc = "ready"
  /\ request \in BuildRequests
  /\ cmd = <<>>
  /\ build_error = <<>>

\* command = self.build_command(input_file, output_file, params)
build_convert ==
  /\ build_pc = "ready"
  /\ request.kind = "convert"
  /\ cmd' = build_command(request.inputs[1].path[1], request.output_file,
                          request.params)
  /\ build_pc' = "built"
  /\ UNCHANGED <<request, build_error>>
  /\ UNCHANGED <<taskVars, status, error, future, work_queue, sdVars, worker,
                 procVars, raised, obs, obs_error, regVars, monVars, guiVars>>

\* command = self.build_merge_command(inputs, output_file, params)
build_merge ==
  /\ build_pc = "ready"
  /\ request.kind = "merge"
  /\ LET r == build_merge_command(request.inputs, request.output_file,
                                  request.params) IN
     /\ cmd' = r.cmd
     /\ build_error' = r.exc
     /\ build_pc' = IF r.exc = <<>> THEN "built" ELSE "raised"
  /\ UNCHANGED request
  /\ UNCHANGED <<taskVars, status, error, future, work_queue, sdVars, worker,
                 procVars, raised, obs, obs_error, regVars, monVars, guiVars>>

\* self._execute(command, ...) or run_with_progress(command, ...): the
\* child process is spawned with the argv built.
execute ==
  /\ build_pc = "built"
  /\ build_pc' = "spawned"
  /\ UNCHANGED <<request, cmd, build_error>>
  /\ UNCHANGED <<taskVars, status, error, future, work_queue, sdVars, worker,
                 procVars, raised, obs, obs_error, regVars, monVars, guiVars>>

BuildNext == build_convert \/ build_merge \/ execute

BuildSpec == BuildInit /\ [][BuildNext]_vars

\* ---- the requests of MergeSpec
\* video.resolution values: "1280x720", "640X360", "auto", "Auto", "1280"
\* (no height), "" and None.
Res_720 == <<"1", "2", "8", "0", "x", "7", "2", "0">>
Res_upper == <<"6", "4", "0", "X", "3", "6", "0">>
Res_auto == <<"a", "u", "t", "o">>
Res_Auto == <<"A", "u", "t", "o">>
Res_width == <<"1", "2", "8", "0">>
Resolutions ==
  {<<>>, <<<<>>>>, <<Res_720>>, <<Res_upper>>, <<Res_auto>>, <<Res_Auto>>,
   <<Res_width>>}

\* Inputs: 1920x1080 with has_audio unspecified, 1280x720 without audio,
\* one with a width only and has_audio true, and a path string.
Input_hd ==
  [form |-> "map", path |-> <<"hd.mp4">>, start |-> <<>>, end |-> <<>>,
   width |-> <<1920>>, height |-> <<1080>>, has_audio |-> <<>>]
Input_sd ==
  [form |-> "map", path |-> <<"sd.mp4">>, start |-> <<>>, end |-> <<>>,
   width |-> <<1280>>, height |-> <<720>>, has_audio |-> <<FALSE>>]
Input_wide ==
  [form |-> "map", path |-> <<"wide.mp4">>, start |-> <<>>, end |-> <<>>,
   width |-> <<640>>, height |-> <<>>, has_audio |-> <<TRUE>>]
MergeItems == {Input_hd, Input_sd, Input_wide, Item_str}

MergeLists == UNION {[1..n -> MergeItems] : n \in 2..MaxInputs}

\* Audio blocks: no sample_rate, and 44100.
MergeAudios == {NoAudio, [NoAudio EXCEPT !.sample_rate = <<44100>>]}

MergeRequestSet ==
  {[kind |-> "merge", inputs |-> l, output_file |-> "out.mp4",
    params |-> [overwrite |-> <<>>, start |-> <<>>, end |-> <<>>,
                video |-> [NoVideo EXCEPT !.resolution = r],
                audio |-> a, extra_args |-> <<>>]] :
     l \in MergeLists, r \in Resolutions, a \in MergeAudios}

MergeInit ==
  /\ TaskInit
  /\ GuiOff
  /\ MonOff
  /\ build_pc = "ready"
  /\ request \in MergeRequestSet
  /\ cmd = <<>>
  /\ build_error = <<>>

MergeNext == build_merge \/ execute

MergeSpec == MergeInit /\ [][MergeNext]_vars

\* ---- the requests of FilterSpec
\* crop blocks: none, w and h, w only, w, h, x and y.
Crops ==
  {<<>>,
   <<[w |-> <<100>>, h |-> <<50>>, x |-> <<>>, y |-> <<>>]>>,
   <<[w |-> <<100>>, h |-> <<>>, x |-> <<>>, y |-> <<>>]>>,
   <<[w |-> <<100>>, h |-> <<50>>, x |-> <<5>>, y |-> <<6>>]>>}

\* rotate values: right angles, other angles, 0 and multiples of 360.
Rotations ==
  {<<>>, <<0>>, <<90>>, <<180>>, <<270>>, <<45>>, <<360>>, <<450>>, <<-90>>}

\* color blocks: none, brightness only, all three fields.
Colors ==
  {<<>>,
   <<[brightness |-> <<10>>, contrast |-> <<>>, saturation |-> <<>>]>>,
   <<[brightness |-> <<-20>>, contrast |-> <<50>>, saturation |-> <<10>>]>>}

\* The other video fields: none set, crf with bitrate, or all set but crf.
PlainVideos ==
  {NoVideo,
   [NoVideo EXCEPT !.crf = <<23>>, !.bitrate = <<"2M">>],
   [NoVideo EXCEPT !.codec = <<"libx264">>, !.bitrate = <<"2M">>,
                   !.fps = <<30>>, !.resolution = <<Res_720>>,
                   !.preset = <<"fast">>, !.tune = <<"film">>]}

FilterVideos ==
  {[v EXCEPT !.crop = c, !.rotate = r, !.color = e] :
     v \in PlainVideos, c \in Crops, r \in Rotations, e \in Colors}

\* loudnorm blocks: none, target only, target and true_peak.
Loudnorms ==
  {<<>>, <<[target |-> <<-14>>, true_peak |-> <<>>]>>,
   <<[target |-> <<-23>>, true_peak |-> <<-2>>]>>}

\* denoise blocks: none, and a strength.
Denoises == {<<>>, <<[strength |-> <<20>>]>>}

FilterAudios ==
  {[a EXCEPT !.loudnorm = l, !.denoise = n] :
     a \in {NoAudio,
            [NoAudio EXCEPT !.codec = <<"aac">>, !.bitrate = <<"128k">>,
                            !.sample_rate = <<44100>>, !.channels = <<2>>]},
     l \in Loudnorms, n \in Denoises}

\* Trim and overwrite arguments: defaults, or all given.
FilterParams ==
  {[t EXCEPT !.video = v, !.audio = a, !.extra_args = e] :
     t \in {[overwrite |-> <<>>, start |-> <<>>, end |-> <<>>,
             video |-> NoVideo, audio |-> NoAudio, extra_args |-> <<>>],
            [overwrite |-> <<FALSE>>, start |-> <<3>>, end |-> <<9>>,
             video |-> NoVideo, audio |-> NoAudio, extra_args |-> <<>>]},
     v \in FilterVideos, a \in FilterAudios,
     e \in {<<>>, <<<<"-movflags", "+faststart">>>>}}

FilterRequests ==
  {[kind |-> k, inputs |-> IF k = "merge" THEN <<Item_str, Item_map>>
                           ELSE <<Item_str>>,
    output_file |-> "out.mp4", params |-> p] :
     k \in {"convert", "merge"}, p \in FilterParams}

FilterInit ==
  /\ TaskInit
  /\ GuiOff
  /\ MonOff
  /\ build_pc = "ready"
  /\ request \in FilterRequests
  /\ cmd = <<>>
  /\ build_error = <<>>

FilterSpec == FilterInit /\ [][BuildNext]_vars

\* ------------------------------------------------- main window job queue

\* A Job of the window: its kind, and whether its output path can be
\* prepared (_resolve_output_path raises OSError otherwise).
GuiJobs == {[kind |-> "convert", ok |-> TRUE],
            [kind |-> "merge", ok |-> TRUE],
            [kind |-> "convert", ok |-> FALSE]}

\* _queue_conversions queues one job per selected file, _queue_merge one job.
JobLists == {<<j>> : j \in GuiJobs} \cup {<<j, k>> : j \in GuiJobs, k \in GuiJobs}

\* The thread leaves the window's code: the GUI thread returns to the event
\* loop, a worker thread returns from on_task_update and ends its work item.
Return(th) ==
  /\ gui' = [gui EXCEPT ![th] = Idle]
  /\ worker' = IF th \in Workers THEN [worker EXCEPT ![th] = Idle] ELSE worker

\* The end of the with block of _register_task releases the lock.
with_exit_after_notify(th) == th
with_exit(th) == 0

\* _enqueue_jobs on the GUI thread: pending_jobs.extend(jobs), then
\* _start_next_job().
enqueue_jobs ==
  /\ gui[MainThread].pc = "idle"
  /\ \E jobs \in JobLists :
       /\ enqueued + Len(jobs) <= MaxJobs
       /\ pending_jobs' = pending_jobs \o jobs
       /\ enqueued' = enqueued + Len(jobs)
  /\ gui' = [gui EXCEPT ![MainThread] = [pc |-> "start", task |-> 0]]
  /\ UNCHANGED <<taskVars, status, error, future, work_queue, sdVars, worker,
                 procVars, raised, obs, obs_error, regVars, monVars,
                 buildVars, active_task_id, current_job>>

\* _start_next_job on thread th: return when a task is active or nothing is
\* pending; else pop the first job and execute it.  _execute_*_job either
\* ends in _finish_job(success=False), which calls _start_next_job again, or
\* enters submit_conversion / submit_merge, which creates the Task.
start_next_job(th) ==
  /\ gui[th].pc = "start"
  /\ IF active_task_id # <<>> \/ pending_jobs = <<>>
     THEN /\ Return(th)
          /\ UNCHANGED <<pending_jobs, current_job, active_task_id, nextId,
                         task_id, task_type, input_data, progress, status>>
     ELSE LET job == Head(pending_jobs)
              t == nextId IN
          /\ pending_jobs' = Tail(pending_jobs)
          /\ IF job.ok
             THEN /\ current_job' = <<job>>
                  /\ task_id' = [task_id EXCEPT ![t] = uuid4(IssuedIds)]
                  /\ nextId' = nextId + 1
                  /\ task_type' = [task_type EXCEPT ![t] =
                                     IF job.kind = "convert" THEN "CONVERT"
                                                             ELSE "MERGE"]
                  /\ input_data' = [input_data EXCEPT ![t] =
                                      IF job.kind = "convert" THEN <<TRUE>>
                                                              ELSE <<TRUE, TRUE>>]
                  /\ progress' = [progress EXCEPT ![t] = TRUE]
                  /\ status' = [status EXCEPT ![t] = "QUEUED"]
                  /\ gui' = [gui EXCEPT ![th] = [pc |-> "created", task |-> t]]
                  /\ UNCHANGED <<active_task_id, worker>>
             ELSE /\ current_job' = <<>>
                  /\ active_task_id' = <<>>
                  /\ UNCHANGED <<gui, worker, nextId, task_id, task_type,
                                 input_data, progress, status>>
  /\ UNCHANGED <<tasks, rejected, error, future, work_queue, sdVars, procVars,
                 raised, obs, obs_error, regVars, monVars, buildVars, enqueued>>

\* _register_task: with self._lock
register_lock(th) ==
  /\ gui[th].pc = "created"
  /\ lock = 0
  /\ lock' = th
  /\ gui' = [gui EXCEPT ![th].pc = "locked"]
  /\ UNCHANGED <<taskVars, status, error, future, work_queue, sdVars, worker,
                 procVars, raised, obs, obs_error, caller, monVars, buildVars,
                 pending_jobs, active_task_id, current_job, enqueued>>

\* self.tasks[task.task_id] = task, and the with block ends
register_store(th) ==
  /\ gui[th].pc = "locked"
  /\ tasks' = Store(gui[th].task, task_id[gui[th].task])
  /\ lock' = with_exit(th)
  /\ gui' = [gui EXCEPT ![th].pc = "stored"]
  /\ UNCHANGED <<nextId, task_id, task_type, input_data, progress, rejected,
                 status, error, future, work_queue, sdVars, worker, procVars,
                 raised, obs, obs_error, caller, monVars, buildVars,
                 pending_jobs, active_task_id, current_job, enqueued>>

\* self._update_task(task, TaskStatus.QUEUED): on_task_update is
\* _handle_task_update, which does nothing for a task that is not the
\* active one and nothing for a status that is not COMPLETED or FAILED.
register_notify(th) ==
  /\ gui[th].pc = "stored"
  /\ UNCHANGED <<taskVars, error, future, work_queue, sdVars, worker,
                 procVars, raised, caller, monVars, buildVars,
                 pending_jobs, active_task_id, current_job, enqueued>>
  /\ update_task(gui[th].task, "QUEUED")
  /\ lock' = IF lock = th THEN 0 ELSE lock
  /\ gui' = [gui EXCEPT ![th].pc = "notified"]

\* future = self.executor.submit(...): the work item is on the pool's queue
\* from here on; task.future = future and the return come later.
schedule(th) ==
  /\ gui[th].pc = "notified"
  /\ work_queue' = Put(work_queue, gui[th].task)
  /\ future' = [future EXCEPT ![gui[th].task] = "PENDING"]
  /\ gui' = [gui EXCEPT ![th].pc = "submitted"]
  /\ UNCHANGED <<taskVars, status, error, sdVars, worker, procVars, raised,
                 obs, obs_error, regVars, monVars, buildVars,
                 pending_jobs, active_task_id, current_job, enqueued>>

\* submit_* returned; _mark_task_active(task.task_id)
mark_task_active(th) ==
  /\ gui[th].pc = "submitted"
  /\ active_task_id' = <<task_id[gui[th].task]>>
  /\ Return(th)
  /\ UNCHANGED <<taskVars, status, error, future, work_queue, sdVars,
                 procVars, raised, obs, obs_error, regVars, monVars,
                 buildVars, pending_jobs, current_job, enqueued>>

\* _run_conversion / _run_merge after the RUNNING notification: the service
\* call returns or raises, _update_task delivers COMPLETED or FAILED on the
\* worker thread, and _handle_task_update runs there: for the active task
\* it calls _finish_job, which clears active_task_id and current_job and
\* calls _start_next_job, still on the worker thread.
run_task(w) ==
  /\ worker[w].pc = "started"
  /\ LET t == worker[w].task IN
     /\ \E s \in {"COMPLETED", "FAILED"} :
          /\ error' = IF s = "FAILED"
                      THEN [error EXCEPT ![t] = <<ExitMessage(1)>>]
                      ELSE error
          /\ update_task(t, s)
     /\ future' = [future EXCEPT ![t] = "FINISHED"]
     /\ IF active_task_id = <<task_id[t]>>
        THEN /\ active_task_id' = <<>>
             /\ current_job' = <<>>
             /\ worker' = [worker EXCEPT ![w] = [pc |-> "callback", task |-> t]]
             /\ gui' = [gui EXCEPT ![w] = [pc |-> "start", task |-> 0]]
        ELSE /\ worker' = [worker EXCEPT ![w] = Idle]
             /\ UNCHANGED <<active_task_id, current_job, gui>>
  /\ UNCHANGED <<taskVars, work_queue, sdVars, procVars, raised, regVars,
                 monVars, buildVars, pending_jobs, enqueued>>

GuiNext ==
  \/ enqueue_jobs
  \/ \E th \in GuiThreads : start_next_job(th)
  \/ \E th \in GuiThreads : register_lock(th)
  \/ \E th \in GuiThreads : register_store(th)
  \/ \E th \in GuiThreads : register_notify(th)
  \/ \E th \in GuiThreads : schedule(th)
  \/ \E th \in GuiThreads : mark_task_active(th)
  \/ \E w \in Workers : Take(w)
  \/ \E w \in Workers : Start(w)
  \/ \E w \in Workers : run_task(w)

GuiSpec == Init /\ [][GuiNext]_vars

\* ------------------------------------------------------------ properties

LegalTransitions == {<<"QUEUED", "RUNNING">>, <<"RUNNING", "COMPLETED">>,
                     <<"RUNNING", "FAILED">>, <<"QUEUED", "CANCELLED">>}
Last(q) == q[Len(q)]
Holders(t) == {w \in Workers : worker[w].task = t}
InQueue(t) == \E i \in 1..Len(work_queue) : work_queue[i] = t

\* C1: a task's status changes only along QUEUED->RUNNING, RUNNING->COMPLETED,
\* RUNNING->FAILED or QUEUED->CANCELLED; in particular a task in COMPLETED,
\* FAILED or CANCELLED never changes status again.
C1_LegalTransitions ==
  [][\A t \in TaskIds :
       (status[t] # "NONE" /\ status'[t] # status[t])
         => <<status[t], status'[t]>> \in LegalTransitions]_vars

C1_Witness ==
  /\ shutdown_flag
  /\ \E t, u \in tasks : status[t] = "COMPLETED" /\ status[u] = "FAILED"

\* C2: the observer has been called exactly once for each state the task
\* entered, in the order entered and seeing that state: QUEUED, RUNNING,
\* FAILED for a task whose child exited with code 1, QUEUED, RUNNING,
\* COMPLETED for a successful one.
EnteredStates(s) ==
  CASE s = "NONE" -> <<>>
    [] s = "QUEUED" -> <<"QUEUED">>
    [] s = "RUNNING" -> <<"QUEUED", "RUNNING">>
    [] s = "CANCELLED" -> <<"QUEUED", "CANCELLED">>
    [] OTHER -> <<"QUEUED", "RUNNING", s>>

C2_ObserverOncePerState ==
  \A t \in TaskIds :
    /\ obs[t] = EnteredStates(status[t])
    /\ (proc[t] = "exited" /\ rc[t] = 1 /\ Holders(t) = {})
         => obs[t] = <<"QUEUED", "RUNNING", "FAILED">>

C2_Witness ==
  \E t, u \in tasks :
    /\ status[t] = "FAILED" /\ proc[t] = "exited" /\ rc[t] = 1
    /\ raised[t][1].type = "FFmpegError" /\ Len(obs[t]) = 3
    /\ status[u] = "COMPLETED" /\ Len(obs[u]) = 3

\* C3: every FAILED task carries a non-empty error message, and when the
\* failure is a non-zero exit of the encoder that wrote diagnostics, the
\* error raised carries that stderr text (not empty), with and without a
\* progress callback.
C3_FailedCarriesStderr ==
  \A t \in TaskIds :
    status[t] = "FAILED" =>
      /\ error[t] # <<>> /\ error[t] # <<"">>
      /\ (raised[t][1].type = "FFmpegError" /\ lines[t] > 0)
           => raised[t][1].stderr > 0

\* C4: an exception raised while a RUNNING task executes (command build,
\* non-zero exit, progress callback) is caught at the task boundary: the
\* task is FAILED with the exception's message as its error, nothing
\* reaches the work item's future, and the worker is free for the tasks
\* submitted after it (worker threads end only at shutdown).
C4_ExceptionsBecomeFailed ==
  /\ \A t \in TaskIds :
       raised[t] # <<>> =>
         /\ status[t] = "FAILED"
         /\ error[t] = <<raised[t][1].msg>>
         /\ future[t] = "FINISHED"
         /\ Holders(t) = {}
  /\ \A w \in Workers : worker[w].pc = "exited" => shutdown_flag

C4_Witness ==
  \E t, u \in tasks :
    /\ t < u
    /\ raised[t] # <<>> /\ raised[t][1].type = "CallbackError"
    /\ status[t] = "FAILED"
    /\ status[u] = "COMPLETED"

\* C5: a submit_merge call with fewer than two inputs, or with an input
\* lacking 'path', leaves no Task in the registry, no observer notification
\* and no process.
C5_BuildErrorsAbortSubmission ==
  \A t \in TaskIds :
    (task_type[t] = "MERGE" /\ BuildError(task_type[t], input_data[t]) # <<>>)
      => /\ t \notin tasks
         /\ obs[t] = <<>>
         /\ proc[t] = "none"

\* C6: every task shutdown() found still queued (its future was cancelled)
\* has status CANCELLED, and the observer was notified of that transition.
C6_ShutdownCancelsQueued ==
  \A t \in TaskIds :
    future[t] = "CANCELLED" =>
      /\ status[t] = "CANCELLED"
      /\ obs[t] = <<"QUEUED", "CANCELLED">>

\* C7 (as claimed): once shutdown() has been called, no task goes from
\* QUEUED to RUNNING.
C7_QueuedNeverRunsAfterShutdown ==
  [][shutdown_flag =>
       \A t \in TaskIds : status[t] = "QUEUED" => status'[t] # "RUNNING"]_vars

\* C7 (amended): a task shutdown() took from the queue (future cancelled)
\* never enters RUNNING and gets no process, and when shutdown() has
\* returned the queue holds no task; only a task a worker had already taken
\* can still enter RUNNING.
C7_DrainedNeverRuns ==
  /\ \A t \in TaskIds :
       future[t] = "CANCELLED" =>
         /\ status[t] = "QUEUED" /\ proc[t] = "none" /\ Holders(t) = {}
  /\ sd_pc = "done" => \A t \in TaskIds : ~InQueue(t)

C7_Witness ==
  /\ sd_pc = "done"
  /\ \E t, u \in tasks :
       /\ future[t] = "CANCELLED"
       /\ status[u] = "QUEUED" /\ \E w \in Workers : worker[w] = [pc |-> "taken", task |-> u]

\* C8: every task that enters RUNNING eventually reaches COMPLETED or FAILED
\* with the observer notified of it, given that a spawned child exits; also
\* when shutdown() is called and returns while the task is RUNNING.
C8_RunningTerminates ==
  \A t \in TaskIds :
    (status[t] = "RUNNING")
      ~> (status[t] \in {"COMPLETED", "FAILED"} /\ Last(obs[t]) = status[t])

C8_Witness ==
  /\ sd_pc = "done"
  /\ \E t \in tasks : status[t] = "RUNNING" /\ proc[t] = "running"

\* C9: at most max_workers tasks are RUNNING, and every RUNNING task is held
\* by exactly one worker, which is executing it.
C9_PoolBound ==
  /\ Cardinality({t \in TaskIds : status[t] = "RUNNING"}) <= max_workers
  /\ \A t \in TaskIds :
       status[t] = "RUNNING" =>
         /\ Cardinality(Holders(t)) = 1
         /\ \A w \in Holders(t) : worker[w].pc \in {"started", "monitoring"}

C9_Witness ==
  /\ Cardinality({t \in TaskIds : status[t] = "RUNNING"}) = max_workers
  /\ \E t \in tasks : status[t] = "QUEUED" /\ InQueue(t)

\* C10 (as claimed): a task submitted later never has entered RUNNING while
\* a task submitted earlier is still QUEUED.
C10_StartsInSubmissionOrder ==
  \A a, b \in tasks :
    (a < b /\ status[b] \in {"RUNNING", "COMPLETED", "FAILED"})
      => status[a] # "QUEUED"

\* C10 (amended): tasks leave the pool's queue in submission order: the
\* queue is ordered by submission, and a task submitted later is not taken
\* from it (by a worker or by shutdown) while an earlier one is still in it.
C10_FifoDequeue ==
  /\ \A i, j \in 1..Len(work_queue) :
       (i < j /\ work_queue[i] # NoItem /\ work_queue[j] # NoItem)
         => work_queue[i] < work_queue[j]
  /\ \A a, b \in tasks \ rejected : (a < b /\ InQueue(a)) => InQueue(b)

C10_Witness ==
  \E a, b \in tasks :
    /\ a < b
    /\ status[b] = "RUNNING"
    /\ status[a] = "QUEUED" /\ \E w \in Workers : worker[w] = [pc |-> "taken", task |-> a]

\* C11: tasks have pairwise distinct ids; a task is in the registry from
\* the store of its submit call on, under its own id; the registry holds
\* one entry per submit call that has stored, and an entry is never removed
\* or replaced - with submits running concurrently on several threads.
Created == {t \in TaskIds : task_id[t] # 0}
Storing == {caller[c].task : c \in {d \in Callers : caller[d].pc \in {"created", "locked"}}}

C11_RegistryInv ==
  /\ \A t, u \in Created : t # u => task_id[t] # task_id[u]
  /\ tasks = Created \ Storing
  /\ Cardinality({task_id[t] : t \in tasks}) = Cardinality(Created \ Storing)

C11_OneEntryPerSubmit ==
  /\ []C11_RegistryInv
  /\ [][/\ tasks \subseteq tasks'
        /\ \A t \in Created : task_id'[t] = task_id[t]]_vars

C11_Witness ==
  /\ Cardinality(tasks) = 2
  /\ \E c, d \in Callers : c # d /\ caller[c].pc = "stored" /\ caller[d].pc = "stored"

\* C12: status and error of a task are written only by the one thread that
\* owns it (the submitting caller until it is scheduled, then the worker
\* that took it), each write comes with its observer notification, and the
\* observer reads the status and error just written: at the FAILED
\* notification the error is set, and nothing changes between notifications.
Owners(t) ==
  {<<"caller", c>> : c \in {d \in Callers : caller[d].task = t}}
    \cup {<<"worker", w>> : w \in {v \in Workers : worker[v].task = t}}
Moved ==
  {<<"caller", c>> : c \in {d \in Callers : caller'[d] # caller[d]}}
    \cup {<<"worker", w>> : w \in {v \in Workers : worker'[v] # worker[v]}}

IsRstripOf(r, l) ==
  /\ Len(r) <= Len(l)
  /\ r = SubSeq(l, 1, Len(r))
  /\ \A k \in (Len(r) + 1)..Len(l) : l[k] \in Space
  /\ r # <<>> => r[Len(r)] \notin Space

\* While the callback has not failed: one non-terminal update per line read,
\* in order, and after the exit one terminal update, the last one.
OnePerLineThenTerminal ==
  outcome # "CallbackError" =>
    /\ Len(updates) = Len(stdout) + (IF mon_pc = "done" THEN 1 ELSE 0)
    /\ \A i \in 1..Len(stdout) : ~updates[i].done
    /\ mon_pc = "done" => Last(updates).done

\* C13 as stated: in a run whose callback does not fail, the callback gets
\* one non-terminal update per line, in the child's order, with raw_line
\* equal to that line, then exactly one terminal update, delivered last.
C13_RawEqualsLine ==
  /\ OnePerLineThenTerminal
  /\ outcome # "CallbackError" =>
       \A i \in 1..Len(stdout) : updates[i].raw = stdout[i]

\* C13 amended: the same, except that raw_line is the line with its
\* trailing whitespace (line terminator included) stripped.
C13_RawIsStrippedLine ==
  /\ OnePerLineThenTerminal
  /\ outcome # "CallbackError" =>
       \A i \in 1..Len(stdout) : IsRstripOf(updates[i].raw, stdout[i])

C13_Witness ==
  /\ outcome = "returned"
  /\ Len(stdout) = 2
  /\ stdout[1] = Line_overrun
  /\ Len(updates[1].raw) = Len(Line_overrun) - 1
  /\ updates[2].raw = stdout[2]
  /\ updates[3].done

\* C14: every run delivers the terminal update (done, exit code set) to the
\* callback, and an FFmpegError is raised only after that delivery.
C14_TerminalAlwaysDelivered ==
  mon_pc = "done" =>
    /\ updates # <<>>
    /\ Last(updates).done
    /\ Last(updates).return_code # <<>>

\* C15: when the child exits with code 0 the terminal update has progress
\* 1.0, current_time = total_duration (None when that is None), eta 0,
\* done = true and exit code 0, whatever lines were read before.
C15_SuccessTerminal ==
  (mon_pc = "done" /\ return_code = <<0>>) =>
    LET u == Last(updates) IN
    /\ u.done
    /\ u.return_code = <<0>>
    /\ u.progress = One
    /\ u.current_time = total_duration
    /\ u.eta = Zero

C15_Witness ==
  /\ mon_pc = "done"
  /\ return_code = <<0>>
  /\ total_duration = <<10, 1>>
  /\ last_progress = <<1, 4>>
  /\ Last(updates).progress = One
  /\ Last(updates).current_time = <<10, 1>>

\* The progress of the last non-terminal update that carried one, or
\* default when there was none.
LastObserved(default) ==
  LET seen == {i \in 1..Len(stdout) : updates[i].progress # <<>>} IN
  IF seen = {} THEN default
  ELSE updates[CHOOSE i \in seen : \A j \in seen : j <= i].progress

FailedTerminal(default) ==
  (mon_pc = "done" /\ return_code \notin {<<>>, <<0>>}) =>
    LET u == Last(updates) IN
    /\ u.done
    /\ u.return_code = return_code
    /\ u.eta = <<>>
    /\ u.progress = LastObserved(default)

\* C16 as stated: when the child exits with a non-zero code the terminal
\* update has done = true, that exit code, no eta, and the progress of the
\* last non-terminal update that carried one, absent when there was none.
C16_FailureProgressAbsent == FailedTerminal(<<>>)

\* C16 amended: the same, except that the progress is 0.0 when no
\* non-terminal update carried one.
C16_FailureProgressLastOrZero == FailedTerminal(Zero)

C16_Witness ==
  /\ mon_pc = "done"
  /\ return_code = <<1>>
  /\ Len(stdout) = 2
  /\ updates[1].progress = <<1, 4>>
  /\ updates[2].progress = <<>>
  /\ Last(updates).progress = <<1, 4>>
  /\ Last(updates).eta = <<>>

\* What the three patterns find in each line of StderrLines.
Expected(line) ==
  CASE line = Line_progress ->
         [time |-> <<5, 1>>, frame |-> <<100>>, speed |-> <<2, 1>>]
    [] line = Line_overrun ->
         [time |-> <<25, 2>>, frame |-> <<7>>, speed |-> <<1, 2>>]
    [] line = Line_banner -> [time |-> <<>>, frame |-> <<>>, speed |-> <<>>]
    [] line = Line_unknown -> [time |-> <<>>, frame |-> <<>>, speed |-> <<>>]
    [] line = Line_stalled ->
         [time |-> <<5, 2>>, frame |-> <<>>, speed |-> Zero]
    [] line = Line_start -> [time |-> Zero, frame |-> <<>>, speed |-> <<>>]
    [] line = Line_blank -> [time |-> <<>>, frame |-> <<>>, speed |-> <<>>]

\* q = a / b, by cross-multiplication
IsQuotient(q, a, b) == q[1] * a[2] * b[1] = a[1] * b[2] * q[2]

KnownPositive == total_duration # <<>> /\ RLess(Zero, total_duration)

\* C17: a non-terminal update has a progress value exactly when its line
\* has a time=HH:MM:SS pattern and total_duration is known and positive; the
\* value is min(time / total_duration, 1.0), within 0..1.  The line
\* "frame=100 time=00:00:05.00 speed=2.0x" with total_duration 10 gives
\* progress 0.5, current_frame 100 and speed 2.0.
C17_ProgressFromTime ==
  \A i \in 1..Len(stdout) :
    LET u == updates[i]
        e == Expected(stdout[i])
    IN /\ u.current_time = e.time
       /\ u.current_frame = e.frame
       /\ u.speed = e.speed
       /\ (u.progress # <<>>) <=> (e.time # <<>> /\ KnownPositive)
       /\ u.progress # <<>> =>
            /\ IF RLess(total_duration, e.time) THEN u.progress = One
               ELSE IsQuotient(u.progress, e.time, total_duration)
            /\ ~RLess(u.progress, Zero)
            /\ ~RLess(One, u.progress)
       /\ (stdout[i] = Line_progress /\ total_duration = <<10, 1>>) =>
            /\ u.progress = <<1, 2>>
            /\ u.current_frame = <<100>>
            /\ u.speed = <<2, 1>>

C17_Witness ==
  /\ Len(stdout) = 2
  /\ stdout[1] = Line_progress
  /\ updates[1].progress = <<1, 2>>
  /\ stdout[2] = Line_overrun
  /\ updates[2].progress = One
  /\ updates[2].current_frame = <<7>>

\* C18: with a progress value and a positive speed,
\* eta = max((total_duration - time) / speed, 0); with a progress value and
\* no positive speed, eta = max(elapsed / progress * (1 - progress), 0) when
\* progress > 0 and is absent otherwise; eta is never negative, and absent
\* when progress is absent.  Time 5, total 10, speed 2.0 give eta 2.5.
C18_EtaFromSpeedElseClock ==
  \A i \in 1..Len(stdout) :
    LET u == updates[i]
        p == u.progress
        fast == u.speed # <<>> /\ RLess(Zero, u.speed)
        left == RSub(total_duration, u.current_time)
        extra == RMul(clock[i], RSub(One, p))
    IN /\ p = <<>> => u.eta = <<>>
       /\ (p # <<>> /\ fast) =>
            IF RLess(left, Zero) THEN u.eta = Zero
            ELSE IsQuotient(u.eta, left, u.speed)
       /\ (p # <<>> /\ ~fast /\ RLess(Zero, p)) =>
            IF RLess(extra, Zero) THEN u.eta = Zero
            ELSE IsQuotient(u.eta, extra, p)
       /\ (p # <<>> /\ ~fast /\ ~RLess(Zero, p)) => u.eta = <<>>
       /\ u.eta # <<>> => ~RLess(u.eta, Zero)
       /\ (stdout[i] = Line_progress /\ total_duration = <<10, 1>>) =>
            u.eta = <<5, 2>>

C18_Witness ==
  /\ Len(stdout) = 2
  /\ stdout[1] = Line_overrun
  /\ updates[1].eta = Zero
  /\ stdout[2] = Line_stalled
  /\ clock[2] = <<8, 1>>
  /\ updates[2].eta = <<24, 1>>

\* ---------------------------------------------- command builder claims
Has(argv, flag) == \E i \in 1..Len(argv) : argv[i] = flag
Follows(argv, flag, text) ==
  \E i \in 1..(Len(argv) - 1) : argv[i] = flag /\ argv[i + 1] = text
Built == build_pc \in {"built", "spawned"}

\* C19: when the video block has crf set, the argv of build_command and of
\* build_merge_command has -crf with that value and no -b:v, also when
\* bitrate is set too; when only bitrate is set the argv has -b:v with that
\* value and no -crf.
C19_CrfBeforeBitrate ==
  Built =>
    LET video == request.params.video IN
    /\ video.crf # <<>> =>
         /\ Follows(cmd, "-crf", ToString(video.crf[1]))
         /\ ~Has(cmd, "-b:v")
    /\ (video.crf = <<>> /\ TruthyStr(video.bitrate)) =>
         /\ Follows(cmd, "-b:v", video.bitrate[1])
         /\ ~Has(cmd, "-crf")

C19_Witness ==
  /\ build_pc = "built"
  /\ request.kind = "merge"
  /\ request.params.video.crf = <<0>>
  /\ request.params.video.bitrate = <<"2M">>
  /\ Follows(cmd, "-crf", "0")
  /\ ~Has(cmd, "-b:v")

\* An input list build_merge must refuse: fewer than two inputs, or an
\* input without a path or with an empty one.
Refused(inputs) ==
  \/ Len(inputs) < 2
  \/ \E i \in 1..Len(inputs) : ~TruthyStr(inputs[i].path)

\* C20: build_merge_command raises ValueError, returning no argv and before
\* any process is spawned, for every input list of length 0 or 1 and every
\* list with an input that has no non-empty path; for every other list it
\* returns an argv.
C20_MergeInputsValidated ==
  (request.kind = "merge" /\ build_pc # "ready") =>
    IF Refused(request.inputs)
    THEN /\ build_pc = "raised"
         /\ build_error # <<>>
         /\ build_error[1].type = "ValueError"
         /\ cmd = <<>>
    ELSE /\ Built
         /\ build_error = <<>>
         /\ cmd # <<>>

\* ------------------------------------------------- merge graph claims
\* The number of places where sub occurs in the string s.
Count(s, sub) ==
  Cardinality({i \in 1..(Len(s) - Len(sub) + 1) :
                 SubSeq(s, i, i + Len(sub) - 1) = sub})

\* The argument that follows -filter_complex.
Graph(argv) == argv[1 + CHOOSE i \in 1..Len(argv) : argv[i] = "-filter_complex"]

MergeBuilt == Built /\ request.kind = "merge"

\* What an explicit resolution string of Resolutions stands for: <<>> for
\* None, "", "auto" in any case, and a string that is not WxH.
ExplicitSize(res) ==
  IF res = <<Res_720>> THEN <<1280, 720>>
  ELSE IF res = <<Res_upper>> THEN <<640, 360>>
  ELSE <<>>

\* The priority of C21, on the inputs as given.
ExpectedSize(req) ==
  LET explicit == ExplicitSize(req.params.video.resolution)
      sized == {i \in 1..Len(req.inputs) :
                  req.inputs[i].width # <<>> /\ req.inputs[i].height # <<>>}
  IN IF explicit # <<>> THEN explicit
     ELSE IF sized = {} THEN <<1920, 1080>>
     ELSE LET i == CHOOSE k \in sized : \A j \in sized : k <= j
          IN <<req.inputs[i].width[1], req.inputs[i].height[1]>>

\* C21: the merge target resolution is the explicit non-"auto" WxH string of
\* the video params, else the size of the first input with width and height,
\* else 1920x1080, and the scale and pad clause of every input uses it.
\* Inputs 1920x1080, 1920x1080, 1280x720 without an explicit resolution
\* give 1920x1080.
C21_SharedTargetResolution ==
  MergeBuilt =>
    LET g == Graph(cmd)
        n == Len(request.inputs)
        size == ToString(ExpectedSize(request)[1]) \o ":"
                  \o ToString(ExpectedSize(request)[2]) \o ":"
    IN /\ Count(g, "scale=") = n
       /\ Count(g, "scale=" \o size) = n
       /\ Count(g, "pad=") = n
       /\ Count(g, "pad=" \o size) = n
       /\ (/\ request.inputs = <<Input_hd, Input_hd, Input_sd>>
           /\ request.params.video.resolution = <<>>)
            => Count(g, "scale=1920:1080:force_original") = 3

C21_Witness ==
  /\ MergeBuilt
  /\ request.inputs = <<Input_wide, Input_sd, Input_hd>>
  /\ request.params.video.resolution = <<Res_Auto>>
  /\ Count(Graph(cmd), "scale=1280:720:") = 3

\* The inputs of the request without sound: has_audio given and false.
Silent == {i \in 1..Len(request.inputs) : request.inputs[i].has_audio = <<FALSE>>}

\* C22: merge audio is enabled exactly when some input has has_audio true
\* or unspecified.  Enabled: one audio chain per input, anullsrc for each
\* input with has_audio false and a resample chain for each other, and both
\* [vout] and [aout] are mapped.  Disabled: no audio chain, concat has a=0,
\* only [vout] is mapped.  Always one concat clause, n = number of inputs.
C22_AudioChains ==
  MergeBuilt =>
    LET g == Graph(cmd)
        n == Len(request.inputs)
        enabled == Silent # 1..n
        maps == {i \in 1..Len(cmd) : cmd[i] = "-map"}
    IN /\ Count(g, "concat=") = 1
       /\ Count(g, "concat=n=" \o ToString(n) \o ":v=1:") = 1
       /\ Follows(cmd, "-map", "[vout]")
       /\ IF enabled
          THEN /\ Count(g, "anullsrc=") = Cardinality(Silent)
               /\ Count(g, "aresample=") = n - Cardinality(Silent)
               /\ \A i \in 1..n :
                    IF i \in Silent
                    THEN Count(g, "asetpts=PTS-STARTPTS[a" \o ToString(i - 1)
                                    \o "]") = 1
                    ELSE Count(g, "[" \o ToString(i - 1) \o ":a]aresample=") = 1
               /\ Count(g, ":v=1:a=1[vout][aout]") = 1
               /\ Follows(cmd, "-map", "[aout]")
               /\ Cardinality(maps) = 2
          ELSE /\ Count(g, "anullsrc=") = 0
               /\ Count(g, "aresample=") = 0
               /\ Count(g, ":a]") = 0
               /\ Count(g, ":v=1:a=0[vout]") = 1
               /\ Count(g, "[aout]") = 0
               /\ ~Has(cmd, "[aout]")
               /\ Cardinality(maps) = 1

C22_Witness ==
  /\ MergeBuilt
  /\ request.inputs = <<Input_sd, Item_str, Input_sd>>
  /\ Count(Graph(cmd), "anullsrc=") = 2
  /\ Count(Graph(cmd), "[1:a]aresample=") = 1
  /\ Has(cmd, "[aout]")

\* [v0][a0][v1][a1]...: the labels of inputs i..n, segment by segment
RECURSIVE SegmentLabels(_, _)
SegmentLabels(i, n) ==
  IF i > n THEN ""
  ELSE "[v" \o ToString(i - 1) \o "][a" \o ToString(i - 1) \o "]"
         \o SegmentLabels(i + 1, n)

\* C27: with audio enabled the concat clause takes its input labels segment
\* by segment, [v0][a0][v1][a1]..., each video label immediately followed
\* by the audio label of the same input.
C27_ConcatLabelsBySegment ==
  (MergeBuilt /\ Silent # 1..Len(request.inputs)) =>
    Count(Graph(cmd),
          SegmentLabels(1, Len(request.inputs)) \o "concat=") = 1

\* ---------------------------------------------------- filter claims
\* C23: the argv of build_merge_command has exactly one -filter_complex and
\* neither -vf nor -af, whatever crop, rotate, color, loudnorm and denoise
\* fields the parameters have, and its codec and bitrate flags are those of
\* the single-input build.
C23_MergeHasNoFilterFlags ==
  MergeBuilt =>
    /\ Cardinality({i \in 1..Len(cmd) : cmd[i] = "-filter_complex"}) = 1
    /\ ~Has(cmd, "-vf")
    /\ ~Has(cmd, "-af")
    /\ Has(cmd, "-c:v") <=> request.params.video.codec # <<>>
    /\ Has(cmd, "-b:v") <=> request.params.video.bitrate # <<>>
    /\ Has(cmd, "-c:a") <=> request.params.audio.codec # <<>>
    /\ Has(cmd, "-b:a") <=> request.params.audio.bitrate # <<>>

\* The flags of the single-input argv, in the order of C24.
FlagOrder ==
  <<"-ss", "-i", "-to", "-c:v", "-crf", "-b:v", "-r", "-s", "-preset",
    "-tune", "-vf", "-c:a", "-b:a", "-ar", "-ac", "-af">>

\* Some video filter field gives a clause: a crop with w and h, a rotate
\* that is neither 0 nor a multiple of 360, a color block.
FiltersVideo(video) ==
  \/ video.crop # <<>> /\ video.crop[1].w # <<>> /\ video.crop[1].h # <<>>
  \/ video.rotate # <<>> /\ video.rotate[1] % 360 # 0
  \/ video.color # <<>>

\* The flags C24 expects for the parameters p.
Expects(p, flag) ==
  CASE flag = "-ss" -> p.start # <<>>
    [] flag = "-i" -> TRUE
    [] flag = "-to" -> p.end # <<>>
    [] flag = "-c:v" -> p.video.codec # <<>>
    [] flag = "-crf" -> p.video.crf # <<>>
    [] flag = "-b:v" -> p.video.crf = <<>> /\ p.video.bitrate # <<>>
    [] flag = "-r" -> p.video.fps # <<>>
    [] flag = "-s" -> p.video.resolution # <<>>
    [] flag = "-preset" -> p.video.preset # <<>>
    [] flag = "-tune" -> p.video.tune # <<>>
    [] flag = "-vf" -> FiltersVideo(p.video)
    [] flag = "-c:a" -> p.audio.codec # <<>>
    [] flag = "-b:a" -> p.audio.bitrate # <<>>
    [] flag = "-ar" -> p.audio.sample_rate # <<>>
    [] flag = "-ac" -> p.audio.channels # <<>>
    [] flag = "-af" -> p.audio.loudnorm # <<>> \/ p.audio.denoise # <<>>

\* Where flag k of FlagOrder stands when every expected flag takes two
\* places after the overwrite flag.
Place(p, k) ==
  4 + 2 * Cardinality({j \in 1..(k - 1) : Expects(p, FlagOrder[j])})

ConvertBuilt == Built /\ request.kind = "convert"

\* C24: the single-input argv is, in this order: the overwrite flag, -ss if
\* start is given, one -i with the input path, -to if end is given, the
\* video flags codec, crf or bitrate, fps, resolution, preset, tune and -vf,
\* the audio flags codec, bitrate, sample_rate, channels and -af, the extra
\* arguments as given, and the output path last.
C24_ConvertArgvOrder ==
  ConvertBuilt =>
    LET p == request.params
        extra == IF p.extra_args = <<>> THEN <<>> ELSE p.extra_args[1]
        rest == Place(p, Len(FlagOrder) + 1)
    IN /\ cmd[3] = (IF p.overwrite = <<FALSE>> THEN "-n" ELSE "-y")
       /\ \A k \in 1..Len(FlagOrder) :
            /\ Has(cmd, FlagOrder[k]) <=> Expects(p, FlagOrder[k])
            /\ Expects(p, FlagOrder[k]) =>
                 /\ cmd[Place(p, k)] = FlagOrder[k]
                 /\ Cardinality({i \in 1..Len(cmd) : cmd[i] = FlagOrder[k]}) = 1
       /\ Follows(cmd, "-i", request.inputs[1].path[1])
       /\ Len(cmd) = rest + Len(extra)
       /\ \A j \in 1..Len(extra) : cmd[rest + j - 1] = extra[j]
       /\ cmd[Len(cmd)] = request.output_file

C24_Witness ==
  /\ ConvertBuilt
  /\ request.params.start = <<3>>
  /\ request.params.video.codec = <<"libx264">>
  /\ request.params.video.rotate = <<-90>>
  /\ request.params.audio.codec = <<"aac">>
  /\ request.params.audio.denoise # <<>>
  /\ request.params.extra_args # <<>>
  /\ cmd[4] = "-ss"
  /\ cmd[Len(cmd) - 2] = "-movflags"
  /\ Has(cmd, "-vf")
  /\ Has(cmd, "-af")

\* The expression that follows -vf, "" when there is no -vf.
VideoFilter(argv) ==
  IF Has(argv, "-vf")
  THEN argv[1 + CHOOSE i \in 1..Len(argv) : argv[i] = "-vf"]
  ELSE ""

\* The first place where sub occurs in s, 0 when it does not.
IndexOf(s, sub) ==
  LET at == {i \in 1..(Len(s) - Len(sub) + 1) :
               SubSeq(s, i, i + Len(sub) - 1) = sub}
  IN IF at = {} THEN 0 ELSE CHOOSE i \in at : \A j \in at : i <= j

\* a occurs before b in s when both occur
Before(s, a, b) ==
  (IndexOf(s, a) # 0 /\ IndexOf(s, b) # 0) => IndexOf(s, a) < IndexOf(s, b)

\* C25: rotate 90, 180, 270 give transpose=1, transpose=2,transpose=2 and
\* transpose=2; any other rotate t that is neither 0 nor a multiple of 360
\* gives the clause rotate=t*PI/180 (t printed as a float); 0 and multiples
\* of 360 give no rotation clause.  The clauses stand in the order crop,
\* rotation, eq, and crop is there exactly when w and h are both present.
C25_VideoFilterClauses ==
  ConvertBuilt =>
    LET e == VideoFilter(cmd)
        video == request.params.video
        t == IF video.rotate = <<>> THEN 0 ELSE video.rotate[1]
    IN /\ t = 90 => Count(e, "transpose=") = 1 /\ Count(e, "transpose=1") = 1
       /\ t = 180 =>
            Count(e, "transpose=") = 2
              /\ Count(e, "transpose=2,transpose=2") = 1
       /\ t = 270 => Count(e, "transpose=") = 1 /\ Count(e, "transpose=2") = 1
       /\ t \in {90, 180, 270} => Count(e, "rotate=") = 0
       /\ (t \notin {90, 180, 270} /\ t % 360 # 0) =>
            /\ Count(e, "rotate=") = 1
            /\ Count(e, "rotate=" \o ToString(t) \o ".0*PI/180") = 1
            /\ Count(e, "transpose=") = 0
       /\ t % 360 = 0 => Count(e, "rotate=") = 0 /\ Count(e, "transpose=") = 0
       /\ Count(e, "crop=") =
            (IF /\ video.crop # <<>>
                /\ video.crop[1].w # <<>>
                /\ video.crop[1].h # <<>>
             THEN 1 ELSE 0)
       /\ Count(e, "eq=") = (IF video.color # <<>> THEN 1 ELSE 0)
       /\ Before(e, "crop=", "transpose=")
       /\ Before(e, "crop=", "rotate=")
       /\ Before(e, "crop=", "eq=")
       /\ Before(e, "transpose=", "eq=")
       /\ Before(e, "rotate=", "eq=")

C25_Witness ==
  /\ ConvertBuilt
  /\ request.params.video.rotate = <<450>>
  /\ VideoFilter(cmd) = "crop=100:50:0:0,rotate=450.0*PI/180,"
                          \o "eq=brightness=0.1:contrast=1.0:saturation=1.0"

\* ------------------------------------------- task manager claims, again
\* C26: a submit call made after shutdown() fails and leaves no trace: its
\* work is not accepted, the registry does not hold its task, the observer
\* was not notified of it, and no task of it stays QUEUED.
C26_RejectedSubmitLeavesNoTrace ==
  \A t \in rejected :
    /\ ~InQueue(t)
    /\ future[t] = "NONE"
    /\ t \notin tasks
    /\ obs[t] = <<>>
    /\ status[t] # "QUEUED"

\* C28: a task in COMPLETED or FAILED has no child process still running:
\* the child started for it has exited and was waited for, also when the
\* progress callback raised in the middle of the diagnostic stream.
C28_TerminalMeansChildExited ==
  \A t \in tasks :
    status[t] \in {"COMPLETED", "FAILED"} => proc[t] # "running"

\* ------------------------------------------------------ job queue claims
\* C29: the terminal notification of the current job's task is always acted
\* on: no task that is COMPLETED or FAILED is still recorded as the active
\* task of the window (which would keep _start_next_job from ever starting
\* the next pending job).
C29_TerminalClearsActive ==
  \A t \in TaskIds :
    status[t] \in {"COMPLETED", "FAILED"} => active_task_id # <<task_id[t]>>

\* C30: the observer is never called by a thread that holds the registry
\* lock, neither by the submitting thread for QUEUED nor by a worker for
\* RUNNING, COMPLETED or FAILED, and a thread that submits from inside the
\* observer never waits for a lock it holds itself.
C30_ObserverOutsideLock ==
  /\ \A th \in GuiThreads : gui[th].pc = "stored" => lock # th
  /\ \A w \in Workers : worker[w].pc \in {"taken", "started"} => lock # w
  /\ \A th \in GuiThreads : gui[th].pc = "created" => lock # th

\* A worker thread inside the observer has submitted the next job through
\* _register_task (lock taken and released, QUEUED notified) while the GUI
\* thread is inside its own submit call.
C30_Witness ==
  \E w \in Workers :
    /\ worker[w].pc = "callback"
    /\ gui[w].pc = "notified"
    /\ gui[MainThread].pc \in {"created", "locked", "stored", "notified"}

====
